---- MODULE Spec2Model ----
(***************************************************************************)
(* A model of the Edvanta server's AI response handling (ai_utils.py,      *)
(* quizzes_utils.py, routes/resume.py) and of its quiz routes              *)
(* (routes/quizzes.py).                                                    *)
(*                                                                         *)
(* Text is a sequence of lexemes.  A lexeme is one of the JSON structural  *)
(* characters, a string literal (named by its content, quotes implied), a  *)
(* number literal, the markdown fence (three backticks), a bare word, or    *)
(* white space.                                                            *)
(* String literals are atomic: the model does not look at structural       *)
(* characters inside a quoted string.                                      *)
(*                                                                         *)
(* A Python value is a pair <<tag, payload>>:                              *)
(*   <<"none", 0>>  <<"bool", b>>  <<"int", n>>  <<"float", <<num, den>>>> *)
(*   <<"nan", 0>>   <<"inf", sign>>  <<"str", s>>  <<"chars", seq>>        *)
(*   <<"list", seq>>  <<"dict", fn>>                                       *)
(* A finite float is kept exactly, as the fraction num/den.  A str is      *)
(* <<"str", s>> when only its identity matters and <<"chars", seq>> when   *)
(* it is read character by character.                                      *)
(***************************************************************************)
EXTENDS Integers, Sequences, FiniteSets, TLC

\* ------------------------------------------------------------------ bounds

\* Longest model output enumerated lexeme by lexeme.
MaxLen == 2

\* ------------------------------------------------------------ Python values

None == <<"none", 0>>
PyInt(n) == <<"int", n>>
PyFloat(num, den) == <<"float", <<num, den>>>>
PyNaN == <<"nan", 0>>
PyInf(sign) == <<"inf", sign>>
PyChars(cs) == <<"chars", cs>>
PyStr(s) == <<"str", s>>
PyList(xs) == <<"list", xs>>
PyDict(f) == <<"dict", f>>
PyBool(b) == <<"bool", b>>

Tag(v) == v[1]
Val(v) == v[2]

EmptyDict == [k \in {} |-> None]
Put(f, k, v) == [x \in (DOMAIN f) \cup {k} |-> IF x = k THEN v ELSE f[x]]

IsDict(v) == Tag(v) = "dict"
IsList(v) == Tag(v) = "list"
HasKey(v, k) == IsDict(v) /\ k \in DOMAIN Val(v)

\* ------------------------------------------------------------------ lexemes

\* Blank or tab, and line break: both are white space to strip() and json.loads.
Sp == " "
Nl == "<nl>"
WsTokens == {Sp, Nl}
\* The markdown fence (three backticks) and the language tag that may follow it.
Fence == "<fence>"
JsonTag == "json"
\* A word of prose, a line holding a // comment, a raw control character.
Prose == "Here"
Comment == "<//line>"
Ctrl == "<ctl>"
Structural == {"{", "}", "[", "]", ",", ":"}

\* Number literals of the model outputs and the values json.loads gives them.
NumTokens == {"0", "1", "5", "50", "75", "150", "-5", "85.5"}
NumVal(tok) ==
    CASE tok = "0" -> PyInt(0)
      [] tok = "1" -> PyInt(1)
      [] tok = "5" -> PyInt(5)
      [] tok = "50" -> PyInt(50)
      [] tok = "75" -> PyInt(75)
      [] tok = "150" -> PyInt(150)
      [] tok = "-5" -> PyInt(0 - 5)
      [] tok = "85.5" -> PyFloat(855, 10)

\* String literals (each stands for the quoted lexeme).
KeyOrder ==
    << "strengths", "improvements", "match_score", "summary",
       "topic", "difficulty", "questions", "id", "question", "options",
       "correctAnswer", "scenes", "narration", "visual_prompt", "k" >>
KeyTokens == {KeyOrder[i] : i \in DOMAIN KeyOrder}
StrTokens == KeyTokens \cup {"a", "b", "c", "d", "z", "T", "U", "easy", "hard", "150%"}

\* ------------------------------------------------------- str operations

SetMin(S) == CHOOSE x \in S : \A y \in S : x <= y
SetMax(S) == CHOOSE x \in S : \A y \in S : x >= y

\* The positions of t that hold no white space.
NonWs(t) == {i \in DOMAIN t : t[i] \notin WsTokens}

\* str.strip()
Strip(t) == IF NonWs(t) = {} THEN <<>> ELSE SubSeq(t, SetMin(NonWs(t)), SetMax(NonWs(t)))

\* The lexemes of t at the positions in keep, in order.
Keep(t, keep) ==
    LET idx == SelectSeq([i \in 1..Len(t) |-> i], LAMBDA i : i \in keep)
    IN  [j \in 1..Len(idx) |-> t[idx[j]]]

\* chunks[lo] \o ... \o chunks[hi]
RECURSIVE Flatten(_, _, _)
Flatten(chunks, lo, hi) ==
    IF lo > hi THEN <<>>
    ELSE IF lo = hi THEN chunks[lo]
    ELSE Flatten(chunks, lo, (lo + hi) \div 2) \o Flatten(chunks, (lo + hi) \div 2 + 1, hi)

\* str.find(tok) for a one-lexeme pattern, 1-based; 0 when absent (-1 in Python).
Find(t, tok) ==
    IF \E i \in DOMAIN t : t[i] = tok
    THEN CHOOSE i \in DOMAIN t : t[i] = tok /\ \A j \in 1..(i - 1) : t[j] # tok
    ELSE 0

\* str.rfind(tok)
RFind(t, tok) ==
    IF \E i \in DOMAIN t : t[i] = tok
    THEN CHOOSE i \in DOMAIN t : t[i] = tok /\ \A j \in (i + 1)..Len(t) : t[j] # tok
    ELSE 0

\* text.find(fence + 'json'): the fence directly followed by the word json.
FindJsonFence(t) ==
    LET hits == {i \in DOMAIN t : t[i] = Fence /\ i < Len(t) /\ t[i + 1] = JsonTag}
    IN  IF hits = {} THEN 0 ELSE CHOOSE i \in hits : \A j \in hits : i <= j

StartsWith(t, p) == Len(t) >= Len(p) /\ SubSeq(t, 1, Len(p)) = p
EndsWith(t, p) == Len(t) >= Len(p) /\ SubSeq(t, Len(t) - Len(p) + 1, Len(t)) = p

\* --------------------------------------------------------------- json.loads

\* The first position at or after i that holds no white space (past the
\* end when there is none).
SkipWs(t, i) ==
    LET rest == {j \in i..Len(t) : t[j] \notin WsTokens}
    IN  IF rest # {} THEN SetMin(rest) ELSE IF i > Len(t) THEN i ELSE Len(t) + 1

\* The parser works on whole segments: a container is split at the commas of
\* its own level and every part is parsed as one value.

ParseFail == [ok |-> FALSE, val |-> None]
ParseOk(v) == [ok |-> TRUE, val |-> v]

\* How many brackets and braces are open after position j of t.
Level(t, j) ==
    Cardinality({k \in 1..j : t[k] \in {"{", "["}})
        - Cardinality({k \in 1..j : t[k] \in {"}", "]"}})

\* The positions of the commas of t that lie inside no bracket or brace.
Commas(t) ==
    SelectSeq([i \in 1..Len(t) |-> i], LAMBDA i : t[i] = "," /\ Level(t, i) = 0)

\* The k-th of the parts the commas cut t into.
Part(t, commas, k) ==
    SubSeq(t,
           IF k = 1 THEN 1 ELSE commas[k - 1] + 1,
           IF k = Len(commas) + 1 THEN Len(t) ELSE commas[k] - 1)

\* A member: a key, a colon, a value.  keyAt and colonAt are its first two
\* positions that hold no white space.
IsMember(m) ==
    /\ Cardinality(NonWs(m)) >= 3
    /\ m[SkipWs(m, 1)] \in StrTokens
    /\ m[SkipWs(m, SkipWs(m, 1) + 1)] = ":"
MemberKey(m) == m[SkipWs(m, 1)]
MemberValue(m) == SubSeq(m, SkipWs(m, SkipWs(m, 1) + 1) + 1, Len(m))

RECURSIVE ParseValue(_)

\* The elements of an array: the text between its brackets.
ParseElems(inner) ==
    LET commas == Commas(inner)
        rs == [k \in 1..(Len(commas) + 1) |-> ParseValue(Part(inner, commas, k))]
    IN  IF \A k \in DOMAIN rs : rs[k].ok
        THEN ParseOk(PyList([k \in DOMAIN rs |-> rs[k].val]))
        ELSE ParseFail

\* The members of an object: the text between its braces.  A repeated key
\* keeps its last value.
ParseMembers(inner) ==
    LET commas == Commas(inner)
        ms == [k \in 1..(Len(commas) + 1) |-> Part(inner, commas, k)]
    IN  IF \A k \in DOMAIN ms : IsMember(ms[k])
        THEN LET rs == [k \in DOMAIN ms |-> ParseValue(MemberValue(ms[k]))]
                 last(key) == SetMax({k \in DOMAIN ms : MemberKey(ms[k]) = key})
             IN  IF \A k \in DOMAIN rs : rs[k].ok
                 THEN ParseOk(PyDict([key \in {MemberKey(ms[k]) : k \in DOMAIN ms} |->
                                         rs[last(key)].val]))
                 ELSE ParseFail
        ELSE ParseFail

\* t as exactly one JSON value, white space around it allowed.
ParseValue(t) ==
    IF NonWs(t) = {} THEN ParseFail
    ELSE LET lo == SetMin(NonWs(t))
             hi == SetMax(NonWs(t))
             inner == SubSeq(t, lo + 1, hi - 1)
         IN  IF lo = hi
             THEN IF t[lo] \in NumTokens THEN ParseOk(NumVal(t[lo]))
                  ELSE IF t[lo] \in StrTokens THEN ParseOk(PyStr(t[lo]))
                  ELSE ParseFail
             ELSE IF t[lo] = "[" /\ t[hi] = "]"
             THEN IF NonWs(inner) = {} THEN ParseOk(PyList(<<>>)) ELSE ParseElems(inner)
             ELSE IF t[lo] = "{" /\ t[hi] = "}"
             THEN IF NonWs(inner) = {} THEN ParseOk(PyDict(EmptyDict)) ELSE ParseMembers(inner)
             ELSE ParseFail

\* json.loads(text): ok is FALSE where Python raises json.JSONDecodeError.
JsonLoads(t) == ParseValue(t)

\* ------------------------------------------------- the generative-AI SDK

\* What one call of the SDK can give: no model (get_ai_model returned None),
\* generate_content raising, or a response with a finish reason
\* (NoCandidates when response.candidates is empty) whose .text accessor
\* either raises ValueError (textOk = FALSE) or yields text.
NoCandidates == 0 - 1
FinishStop == 1
FinishMaxTokens == 2
FinishSafety == 3
FinishRecitation == 4
FinishOther == 5

SdkNoModel == [kind |-> "no_model", finish |-> NoCandidates, textOk |-> FALSE, text |-> <<>>]
SdkCallRaises == [kind |-> "call_raises", finish |-> NoCandidates, textOk |-> FALSE, text |-> <<>>]
SdkResponse(f, ok, t) == [kind |-> "response", finish |-> f, textOk |-> ok, text |-> t]

\* ------------------------------------------------- generate_ai_response

FallbackTypes == {"resume", "roadmap", "video"}
AiTypes == {"general", "tutor", "chatbot", "roadmap", "resume", "quiz", "visual", "video"}

\* The outcome of a call: an exception, or the returned dict.
Raised(what) == [raised |-> TRUE, exc |-> what, success |-> FALSE, response |-> <<>>, error |-> "raised"]
AiResult(ok, text, err) == [raised |-> FALSE, exc |-> "none", success |-> ok, response |-> text, error |-> err]

\* A blocked generation reported under a kind of its own choosing.
GenerationBlockedAsInvalidJson == "invalid_json"

\* The error kind of a RECITATION or OTHER finish.
GenerationBlocked == "generation_blocked"

GenerateAiResponse(aiType, sdk) ==
    IF sdk.kind = "no_model" THEN Raised("Exception")
    ELSE IF sdk.kind = "call_raises" THEN Raised("Exception")
    ELSE IF sdk.finish = FinishSafety THEN
        IF aiType \in FallbackTypes
        THEN AiResult(FALSE, <<>>, "safety_filter")
        ELSE Raised("Exception")
    ELSE IF sdk.finish \in {FinishRecitation, FinishOther} THEN
        IF aiType \in FallbackTypes
        THEN AiResult(FALSE, <<>>, GenerationBlocked)
        ELSE Raised("Exception")
    ELSE IF ~sdk.textOk /\ sdk.finish = FinishMaxTokens /\ aiType \in FallbackTypes
        THEN AiResult(FALSE, <<>>, "max_tokens")
    ELSE IF ~sdk.textOk \/ sdk.text = <<>> THEN
        IF aiType \in FallbackTypes
        THEN AiResult(FALSE, <<>>, "empty_response")
        ELSE Raised("Exception")
    ELSE AiResult(TRUE, Strip(sdk.text), "None")

\* ------------------------------------------- cleaning shared by the adapters

\* "Remove markdown code blocks": between fence+json (else the first fence)
\* and the last fence, when the last fence lies strictly after the opening.
StripFences(t) ==
    LET pj == FindJsonFence(t)
        p == Find(t, Fence)
        e == RFind(t, Fence)
    IN  IF pj # 0
        THEN IF e > pj + 2 THEN Strip(SubSeq(t, pj + 2, e - 1)) ELSE t
        ELSE IF p # 0
        THEN IF e > p + 1 THEN Strip(SubSeq(t, p + 1, e - 1)) ELSE t
        ELSE t

\* "Find JSON object boundaries": text[find(open) : rfind(close) + 1].
SliceBetween(t, open, close) ==
    LET f == Find(t, open)
        l == RFind(t, close)
    IN  IF f # 0 /\ l # 0 THEN SubSeq(t, f, l) ELSE t

CleanObject(t) == SliceBetween(StripFences(Strip(t)), "{", "}")
CleanArray(t) == SliceBetween(StripFences(Strip(t)), "[", "]")

\* ------------------------------------------------------- adapter outcomes

\* What an adapter call ends with: an exception, or a returned dict.
\*   path    "parsed" when value comes from the model output, "fallback" when
\*           it is the adapter's hand-authored default, "none" otherwise
\*   parsed  what json.loads made of the cleaned model output
AdapterRaised(what) ==
    [raised |-> TRUE, exc |-> what, success |-> FALSE, path |-> "none",
     parsed |-> [ok |-> FALSE, val |-> None], value |-> None, error |-> "raised"]
AdapterOut(ok, how, p, v, err) ==
    [raised |-> FALSE, exc |-> "none", success |-> ok, path |-> how,
     parsed |-> p, value |-> v, error |-> err]
NotParsed == [ok |-> FALSE, val |-> None]

\* dict.get(k, default)
Get(d, k, default) == IF k \in DOMAIN d THEN d[k] ELSE default

\* ------------------------------------------------ generate_roadmap_content

SimpleRoadmap(goal, weeks) ==
    PyDict([title |-> PyStr(goal),
            description |-> PyStr("Learning path for goal"),
            duration_weeks |-> PyInt(weeks),
            nodes |-> PyList(<<
                PyDict([id |-> PyStr("start"), title |-> PyStr("Getting Started"),
                        week |-> PyInt(1)]),
                PyDict([id |-> PyStr("intermediate"), title |-> PyStr("Building Skills"),
                        week |-> PyInt(weeks \div 2)]),
                PyDict([id |-> PyStr("advanced"), title |-> PyStr("Advanced Topics"),
                        week |-> PyInt(weeks)]) >>),
            edges |-> PyList(<<
                PyDict([from |-> PyStr("start"), to |-> PyStr("intermediate")]),
                PyDict([from |-> PyStr("intermediate"), to |-> PyStr("advanced")]) >>)])

GenerateRoadmapContent(goal, weeks, sdk) ==
    LET r == GenerateAiResponse("roadmap", sdk) IN
    IF r.raised THEN AdapterRaised(r.exc)
    ELSE IF r.success THEN
        LET p == JsonLoads(CleanObject(r.response)) IN
        IF p.ok
        THEN AdapterOut(TRUE, "parsed", p, p.val, "None")
        ELSE AdapterOut(TRUE, "fallback", p, SimpleRoadmap(goal, weeks), "None")
    ELSE AdapterRaised("Exception")

\* --------------------------------------------------- generate_quiz_content

GenerateQuizContent(sdk) ==
    LET r == GenerateAiResponse("quiz", sdk) IN
    IF r.raised THEN AdapterRaised(r.exc)
    ELSE IF r.success THEN
        LET p == JsonLoads(CleanArray(r.response)) IN
        IF p.ok
        THEN AdapterOut(TRUE, "parsed", p, p.val, "None")
        ELSE AdapterOut(FALSE, "none", p, PyList(<<>>), "Failed to parse quiz JSON")
    ELSE AdapterOut(FALSE, "none", NotParsed, None, r.error)

\* ---------------------------------------------------------- analyze_resume

CanonicalKeys == {"strengths", "improvements", "match_score", "summary"}

SimpleAnalysisBlocked ==
    PyDict([strengths |-> PyList(<<PyStr("Resume includes relevant experience"),
                                   PyStr("Clear structure and formatting")>>),
            improvements |-> PyList(<<PyStr("Consider adding more quantifiable achievements"),
                                      PyStr("Include specific technical skills")>>),
            match_score |-> PyInt(65),
            summary |-> PyStr("Resume shows potential match with the role.")])

SimpleAnalysisParseError ==
    PyDict([strengths |-> PyList(<<PyStr("Resume reviewed")>>),
            improvements |-> PyList(<<PyStr("Consider adding more specific skills")>>),
            match_score |-> PyInt(60),
            summary |-> PyStr("Resume analysis completed with basic evaluation.")])

\* key in analysis, for whatever json.loads returned; ok = FALSE is a TypeError.
PyContains(v, k) ==
    CASE Tag(v) = "dict" -> [ok |-> TRUE, has |-> k \in DOMAIN Val(v)]
      [] Tag(v) = "list" ->
            [ok |-> TRUE, has |-> \E i \in DOMAIN Val(v) : Val(v)[i] = PyStr(k)]
      [] Tag(v) = "str" -> [ok |-> TRUE, has |-> Val(v) = k]
      [] OTHER -> [ok |-> FALSE, has |-> FALSE]

ResumeDefault(k) ==
    CASE k = "strengths" -> PyList(<<>>)
      [] k = "improvements" -> PyList(<<>>)
      [] k = "match_score" -> PyInt(50)
      [] k = "summary" -> PyStr("Analysis completed")

\* "Ensure required fields exist": a missing key is assigned its default;
\* the assignment is a TypeError on anything but a dict.
EnsureFields(v) ==
    IF IsDict(v)
    THEN [ok |-> TRUE,
          val |-> PyDict([k \in (DOMAIN Val(v)) \cup CanonicalKeys |->
                            IF k \in DOMAIN Val(v) THEN Val(v)[k] ELSE ResumeDefault(k)])]
    ELSE IF \A k \in CanonicalKeys : PyContains(v, k).ok /\ PyContains(v, k).has
    THEN [ok |-> TRUE, val |-> v]
    ELSE [ok |-> FALSE, val |-> None]

AnalyzeResume(sdk) ==
    LET r == GenerateAiResponse("resume", sdk) IN
    IF r.raised THEN AdapterRaised(r.exc)
    ELSE IF ~r.success \/ r.error \in {"safety_filter", "generation_blocked", "empty_response"}
    THEN AdapterOut(TRUE, "fallback", NotParsed, SimpleAnalysisBlocked, "None")
    ELSE LET p == JsonLoads(CleanObject(r.response)) IN
         IF ~p.ok
         THEN AdapterOut(TRUE, "fallback", p, SimpleAnalysisParseError, "None")
         ELSE LET e == EnsureFields(p.val) IN
              IF e.ok
              THEN AdapterOut(TRUE, "parsed", p, e.val, "None")
              ELSE AdapterRaised("TypeError")

\* ---------------------------------------------------------- fix_json_syntax

\* The first lexeme at or after i that is not white space ("" past the end).
NextLexeme(t, i) == IF SkipWs(t, i) <= Len(t) THEN t[SkipWs(t, i)] ELSE ""

\* The last position before i that holds no white space (0 when none).
PrevIdx(t, i) ==
    LET before == {j \in 1..(i - 1) : t[j] \notin WsTokens}
    IN  IF before = {} THEN 0 ELSE SetMax(before)

\* The white space run starting at i holds a line break.
RunHasNl(t, i) == \E j \in i..(SkipWs(t, i) - 1) : t[j] = Nl

\* re.sub(r',(\s*[}\]])', r'\1', text): a comma whose next lexeme closes.
DropTrailingCommas(t) ==
    Keep(t, {i \in DOMAIN t : ~(t[i] = "," /\ NextLexeme(t, i + 1) \in {"}", "]"})})

\* A closing brace at i whose next lexeme is an opening brace.
BetweenObjects(t, i) == i > 0 /\ t[i] = "}" /\ NextLexeme(t, i + 1) = "{"

\* re.sub(r'}\s*{', r'},{', text)
CommaBetweenObjects(t) ==
    Flatten([i \in DOMAIN t |->
                IF BetweenObjects(t, i) THEN <<"}", ",">>
                ELSE IF t[i] \in WsTokens /\ BetweenObjects(t, PrevIdx(t, i)) THEN <<>>
                ELSE <<t[i]>>],
            1, Len(t))

\* A closing quote at i, then white space with a line break, then an opening quote.
BetweenLines(t, i) ==
    i > 0 /\ t[i] \in StrTokens /\ RunHasNl(t, i + 1) /\ NextLexeme(t, i + 1) \in StrTokens

\* re.sub(r'"\s*\n\s*"', r'",\n"', text)
CommaBetweenLines(t) ==
    Flatten([i \in DOMAIN t |->
                IF BetweenLines(t, i) THEN <<t[i], ",", Nl>>
                ELSE IF t[i] \in WsTokens /\ BetweenLines(t, PrevIdx(t, i)) THEN <<>>
                ELSE <<t[i]>>],
            1, Len(t))

\* "Remove any control characters"
DropControl(t) == SelectSeq(t, LAMBDA x : x # Ctrl)

FixJsonSyntax(t) ==
    DropControl(CommaBetweenLines(CommaBetweenObjects(DropTrailingCommas(t))))

\* ------------------------------------------- create_fallback_visual_scenes

Max(a, b) == IF a >= b THEN a ELSE b
Min(a, b) == IF a <= b THEN a ELSE b

FallbackScene(i) ==
    PyDict([narration |-> PyStr("chunk"), visual_description |-> PyStr("Educational illustration"),
            visual |-> PyStr("Slide"), color |-> PyStr("#color"), duration |-> PyInt(5)])

\* words: the number of words of the input text.  ok = FALSE is the
\* ZeroDivisionError of len(words) // max_scenes.
CreateFallbackVisualScenes(words, maxScenes) ==
    IF maxScenes = 0 THEN [ok |-> FALSE, val |-> None]
    ELSE LET chunk == Max(words \div maxScenes, 10)
             stop == Min(words, chunk * maxScenes)
             n == (stop + chunk - 1) \div chunk
         IN  [ok |-> TRUE, val |-> PyList([i \in 1..Min(n, maxScenes) |-> FallbackScene(i)])]

\* ---------------------------------------------------- generate_visual_script

\* response.replace(fence + 'json', '').replace(fence, '')
DropFences(t) ==
    Keep(t, {i \in DOMAIN t :
                /\ t[i] # Fence
                /\ ~(t[i] = JsonTag /\ i > 1 /\ t[i - 1] = Fence)})

\* Returns [raised, exc, val]: the scenes list, or the exception.
GenerateVisualScript(words, maxScenes, sdk) ==
    LET r == GenerateAiResponse("visual", sdk)
        p == JsonLoads(Strip(DropFences(r.response)))
        fb == CreateFallbackVisualScenes(words, maxScenes)
    IN  IF r.raised THEN [raised |-> TRUE, exc |-> r.exc, val |-> None, path |-> "none"]
        ELSE IF r.success /\ p.ok
        THEN [raised |-> FALSE, exc |-> "none", path |-> "parsed",
              val |-> IF IsList(p.val) THEN p.val ELSE PyList(<<>>)]
        ELSE IF fb.ok
        THEN [raised |-> FALSE, exc |-> "none", val |-> fb.val, path |-> "fallback"]
        ELSE [raised |-> TRUE, exc |-> "ZeroDivisionError", val |-> None, path |-> "none"]

\* ------------------------------------------------- generate_video_with_veo3

\* extract_scenes_from_spec; ok = FALSE is the AttributeError / TypeError of
\* scene.get on something that is no dict.
ExtractScenesFromSpec(spec) ==
    IF ~HasKey(spec, "scenes") THEN [ok |-> TRUE, val |-> PyList(<<>>)]
    ELSE LET sc == Val(spec)["scenes"] IN
         IF IsList(sc) /\ \A i \in DOMAIN Val(sc) : IsDict(Val(sc)[i])
         THEN [ok |-> TRUE,
               val |-> PyList([i \in DOMAIN Val(sc) |->
                          PyDict([narration |-> Get(Val(Val(sc)[i]), "narration", PyStr("")),
                                  visual_description |->
                                      Get(Val(Val(sc)[i]), "visual_prompt", PyStr(""))])])]
         ELSE IF IsDict(sc) /\ DOMAIN Val(sc) = {}
         THEN [ok |-> TRUE, val |-> PyList(<<>>)]
         ELSE [ok |-> FALSE, val |-> None]

\* create_video_spec_from_scenes, for a list of scenes.
CreateVideoSpecFromScenes(scenes, duration) ==
    LET xs == Val(scenes)
        each == IF xs = <<>> THEN 5 ELSE Max(3, duration \div Len(xs))
    IN  IF \A i \in DOMAIN xs : IsDict(xs[i])
        THEN [ok |-> TRUE,
              val |-> PyDict([video_description |-> PyStr("Educational video"),
                              scenes |-> PyList([i \in DOMAIN xs |->
                                  PyDict([start_time |-> PyInt((i - 1) * each),
                                          duration |-> PyInt(each),
                                          visual_prompt |->
                                              PyStr(<<"Educational visualization: ",
                                                      Get(Val(xs[i]), "visual_description",
                                                          PyStr(""))>>),
                                          narration |-> Get(Val(xs[i]), "narration", PyStr("")),
                                          transitions |->
                                              PyStr(IF i < Len(xs) THEN "fade" ELSE "none")])]),
                              background_music |-> PyStr("soft educational background music"),
                              visual_style |-> PyStr("clean, modern educational design")])]
        ELSE [ok |-> FALSE, val |-> None]

VideoFailed(words, msg) ==
    [raised |-> FALSE, exc |-> "none", success |-> FALSE, path |-> "none",
     parsed |-> NotParsed, value |-> None, error |-> msg, status |-> "none",
     scenes |-> CreateFallbackVisualScenes(words, 8).val]

VideoOut(how, p, spec, scenes, status) ==
    [raised |-> FALSE, exc |-> "none", success |-> TRUE, path |-> how,
     parsed |-> p, value |-> spec, error |-> "None", status |-> status,
     scenes |-> scenes]

\* "Fallback to scene-based generation": a second AI call for a visual script.
VideoFromScript(words, duration, maxScenes, p, sdk2) ==
    LET sc == GenerateVisualScript(words, maxScenes, sdk2) IN
    IF sc.raised THEN VideoFailed(words, sc.exc)
    ELSE LET spec == CreateVideoSpecFromScenes(sc.val, duration) IN
         IF spec.ok
         THEN VideoOut("fallback", p, spec.val, sc.val, "fallback_specification")
         ELSE VideoFailed(words, "AttributeError")

\* "one more aggressive cleanup": lines that are // comments are dropped.
DropCommentLines(t) == SelectSeq(t, LAMBDA x : x # Comment)

\* veo: what get_veo3_model gives: "ok", "none" (initialize_ai failed: None is
\* unpacked, a TypeError) or "no_model" ((None, {}) after an exception).
GenerateVideoWithVeo3(words, duration, veo, sdk, sdk2) ==
    IF veo = "none" THEN VideoFailed(words, "TypeError")
    ELSE IF veo = "no_model" THEN VideoFailed(words, "Video generation model not available")
    ELSE LET r == GenerateAiResponse("video", sdk) IN
    IF r.raised THEN VideoFailed(words, r.exc)
    ELSE IF r.success /\ r.response # <<>> THEN
        IF ~EndsWith(Strip(r.response), <<"}">>)
        THEN VideoFromScript(words, duration, duration \div 5, NotParsed, sdk2)
        ELSE LET fixed == FixJsonSyntax(SliceBetween(StripFences(r.response), "{", "}"))
                 p1 == JsonLoads(fixed)
                 p == IF p1.ok THEN p1 ELSE JsonLoads(DropCommentLines(fixed))
             IN  IF ~p.ok
                 THEN VideoFromScript(words, duration, duration \div 5, p, sdk2)
                 ELSE LET sc == ExtractScenesFromSpec(p.val) IN
                      IF sc.ok
                      THEN VideoOut("parsed", p, p.val, sc.val, "generated_specification")
                      ELSE [VideoFailed(words, "AttributeError") EXCEPT !.parsed = p]
    ELSE VideoFromScript(words, duration, Max(3, duration \div 5), NotParsed, sdk2)

\* ------------------------------------------ routes/resume._safe_extract_json

\* ok = FALSE is the ValueError.
SafeExtractJson(t) ==
    IF t = <<>> THEN NotParsed
    ELSE LET text == Strip(t)
             quick == JsonLoads(text)
             start == Find(text, "{")
             end == RFind(text, "}")
             candidate == SubSeq(text, start, end)
             cleaned == [i \in DOMAIN candidate |->
                            IF candidate[i] = Nl THEN Sp ELSE candidate[i]]
         IN  IF quick.ok THEN quick
             ELSE IF start # 0 /\ end # 0 /\ end > start
             THEN IF JsonLoads(candidate).ok THEN JsonLoads(candidate)
                  ELSE JsonLoads(cleaned)
             ELSE NotParsed

\* ---------------------------------------------- quizzes_utils.create_quiz

\* The number of characters of a string literal of the model.
StrLen(s) ==
    CASE s \in {"a", "b", "c", "d", "z", "T", "U", "k"} -> 1
      [] s \in {"id"} -> 2
      [] s \in {"easy", "hard", "150%"} -> 4
      [] s \in {"topic"} -> 5
      [] s \in {"scenes"} -> 6
      [] s \in {"summary", "options"} -> 7
      [] s \in {"question"} -> 8
      [] s \in {"strengths", "questions", "narration"} -> 9
      [] s \in {"difficulty"} -> 10
      [] s \in {"match_score"} -> 11
      [] s \in {"improvements"} -> 12
      [] s \in {"correctAnswer", "visual_prompt"} -> 13
      [] OTHER -> 1

\* len(v); ok = FALSE is the TypeError of len() on a number, a bool or None.
PyLen(v) ==
    CASE Tag(v) = "list" -> [ok |-> TRUE, n |-> Len(Val(v))]
      [] Tag(v) = "dict" -> [ok |-> TRUE, n |-> Cardinality(DOMAIN Val(v))]
      [] Tag(v) = "str" -> [ok |-> TRUE, n |-> StrLen(Val(v))]
      [] OTHER -> [ok |-> FALSE, n |-> 0]

\* The i-th question of the hardcoded quiz. The source suffixes the question and
\* option texts with i; the suffix is the same on the answer and on the first
\* option, so it is left out of the texts and kept in the id.
HardcodedQuestion(i) ==
    PyDict([id |-> PyInt(i),
            question |-> PyStr("Sample question"),
            options |-> PyList(<<PyStr("Option A"), PyStr("Option B"),
                                 PyStr("Option C"), PyStr("Option D")>>),
            correctAnswer |-> PyStr("Option A")])

HardcodedQuiz(topic, difficulty, n) ==
    PyDict([topic |-> PyStr(topic), difficulty |-> PyStr(difficulty),
            questions |-> PyList([i \in 1..n |-> HardcodedQuestion(i)])])

\* "Clean response text": a leading fence (with or without json), a trailing fence.
CreateQuizClean(t) ==
    LET a == IF StartsWith(t, <<Fence, JsonTag>>) THEN SubSeq(t, 3, Len(t))
             ELSE IF StartsWith(t, <<Fence>>) THEN SubSeq(t, 2, Len(t))
             ELSE t
    IN  IF EndsWith(a, <<Fence>>) THEN SubSeq(a, 1, Len(a) - 1) ELSE a

\* "Basic validation"; a TypeError of len() counts as not valid (it is caught).
CreateQuizValid(v, n) ==
    /\ IsDict(v)
    /\ {"topic", "difficulty", "questions"} \subseteq DOMAIN Val(v)
    /\ PyLen(Val(v)["questions"]).ok
    /\ PyLen(Val(v)["questions"]).n = n

CreateQuiz(topic, difficulty, n, sdk) ==
    LET p == JsonLoads(Strip(CreateQuizClean(Strip(sdk.text)))) IN
    IF sdk.kind = "response" /\ sdk.textOk /\ p.ok /\ CreateQuizValid(p.val, n)
    THEN AdapterOut(TRUE, "parsed", p, p.val, "None")
    ELSE AdapterOut(TRUE, "fallback", NotParsed, HardcodedQuiz(topic, difficulty, n), "None")

\* ------------------------------------- routes/resume._normalize_analysis

Digits == {"0", "1", "5"}
DigitOf(c) == CASE c = "0" -> 0 [] c = "1" -> 1 [] c = "5" -> 5

RECURSIVE DigitsVal(_)
DigitsVal(cs) ==
    IF cs = <<>> THEN 0
    ELSE 10 * DigitsVal(SubSeq(cs, 1, Len(cs) - 1)) + DigitOf(cs[Len(cs)])

RECURSIVE Pow10(_)
Pow10(k) == IF k = 0 THEN 1 ELSE 10 * Pow10(k - 1)

AllDigits(cs) == \A i \in DOMAIN cs : cs[i] \in Digits

\* float(str): white space stripped, an optional sign, then digits with an
\* optional point (at least one digit).  ok = FALSE is the ValueError.
FloatOfChars(cs0) ==
    LET cs == Strip(cs0)
        signed == cs # <<>> /\ cs[1] \in {"-", "+"}
        body == IF signed THEN Tail(cs) ELSE cs
        dot == Find(body, ".")
        whole == IF dot = 0 THEN body ELSE SubSeq(body, 1, dot - 1)
        frac == IF dot = 0 THEN <<>> ELSE SubSeq(body, dot + 1, Len(body))
        mag == DigitsVal(whole \o frac)
    IN  IF AllDigits(whole) /\ AllDigits(frac) /\ whole \o frac # <<>>
        THEN [ok |-> TRUE, fin |-> TRUE,
              num |-> IF signed /\ cs[1] = "-" THEN 0 - mag ELSE mag,
              den |-> Pow10(Len(frac))]
        ELSE [ok |-> FALSE, fin |-> FALSE, num |-> 0, den |-> 1]

\* The characters of a string literal of the model outputs.
CharsOf(s) == IF s = "150%" THEN <<"1", "5", "0", "%">> ELSE <<"x">>

\* float(val); ok = FALSE is a TypeError or ValueError, fin = FALSE nan or inf.
PyFloatOf(v) ==
    CASE Tag(v) = "int" -> [ok |-> TRUE, fin |-> TRUE, num |-> Val(v), den |-> 1]
      [] Tag(v) = "bool" ->
            [ok |-> TRUE, fin |-> TRUE, num |-> IF Val(v) THEN 1 ELSE 0, den |-> 1]
      [] Tag(v) = "float" -> [ok |-> TRUE, fin |-> TRUE, num |-> Val(v)[1], den |-> Val(v)[2]]
      [] Tag(v) \in {"nan", "inf"} -> [ok |-> TRUE, fin |-> FALSE, num |-> 0, den |-> 1]
      [] Tag(v) = "chars" -> FloatOfChars(Val(v))
      [] Tag(v) = "str" -> FloatOfChars(CharsOf(Val(v)))
      [] OTHER -> [ok |-> FALSE, fin |-> FALSE, num |-> 0, den |-> 1]

\* round(num/den): to the nearest integer, a tie to the even one.
PyRound(num, den) ==
    LET q == num \div den
        r == num % den
    IN  IF 2 * r < den THEN q
        ELSE IF 2 * r > den THEN q + 1
        ELSE IF q % 2 = 0 THEN q ELSE q + 1

\* val[:-1] when val is a str ending with '%'
DropPercent(v) ==
    IF Tag(v) = "chars" /\ EndsWith(Val(v), <<"%">>)
    THEN PyChars(SubSeq(Val(v), 1, Len(Val(v)) - 1))
    ELSE IF Tag(v) = "str" /\ EndsWith(CharsOf(Val(v)), <<"%">>)
    THEN PyChars(SubSeq(CharsOf(Val(v)), 1, Len(CharsOf(Val(v))) - 1))
    ELSE v

ScoreLo == 0
ScoreHi == 100

\* to_score without the clamp of line 80.
ToScoreUnclamped(val) ==
    LET f == PyFloatOf(DropPercent(val)) IN
    IF f.ok /\ f.fin THEN PyRound(f.num, f.den) ELSE 0

\* to_score: round(nan) and round(inf) raise, and every exception gives 0.
ToScore(val) ==
    LET f == PyFloatOf(DropPercent(val)) IN
    IF f.ok /\ f.fin
    THEN Max(ScoreLo, Min(ScoreHi, PyRound(f.num, f.den)))
    ELSE 0

\* bool(v)
Truthy(v) ==
    CASE Tag(v) = "none" -> FALSE
      [] Tag(v) = "bool" -> Val(v)
      [] Tag(v) = "int" -> Val(v) # 0
      [] Tag(v) = "float" -> Val(v)[1] # 0
      [] Tag(v) \in {"list", "chars"} -> Val(v) # <<>>
      [] Tag(v) = "dict" -> DOMAIN Val(v) # {}
      [] OTHER -> TRUE

\* a or b
PyOr(a, b) == IF Truthy(a) THEN a ELSE b

\* The match_score of _normalize_analysis(obj): the first truthy of the keys
\* match_score, match, score, coerced by to_score.
NormalizedMatchScore(obj) ==
    ToScore(PyOr(Get(obj, "match_score", None),
                 PyOr(Get(obj, "match", None), Get(obj, "score", None))))

\* =================================================================== inputs
\* The model outputs the adapters are run on.

SeqsUpTo(S, n) == UNION {[1..k -> S] : k \in 0..n}

\* Every text of at most MaxLen lexemes over this alphabet.
Alphabet ==
    {"{", "}", "[", "]", ",", ":", "k", "1", Sp, Nl, Fence, JsonTag, Prose, Comment, Ctrl}
ShortTexts == SeqsUpTo(Alphabet, MaxLen)

RECURSIVE Join(_, _)
Join(parts, sep) ==
    IF parts = <<>> THEN <<>>
    ELSE IF Len(parts) = 1 THEN parts[1]
    ELSE parts[1] \o sep \o Join(Tail(parts), sep)

Arr(items) == <<"[">> \o Join(items, <<",", Sp>>) \o <<"]">>
Member(k, v) == <<k, ":", Sp>> \o v
Obj(members) == <<"{">> \o Join(members, <<",", Nl>>) \o <<"}">>

ResumeDoc(score) ==
    Obj(<< Member("strengths", Arr(<< <<"a">> >>)),
           Member("improvements", Arr(<< <<"b">> >>)),
           Member("match_score", <<score>>),
           Member("summary", <<"c">>) >>)

QuestionDoc(options, answer) ==
    Obj(<< Member("id", <<"1">>), Member("question", <<"a">>),
           Member("options", Arr(options)), Member("correctAnswer", <<answer>>) >>)
GoodQuestion == QuestionDoc(<< <<"a">>, <<"b">>, <<"c">>, <<"d">> >>, "a")
QuestionDocs ==
    { GoodQuestion,
      QuestionDoc(<< <<"a">>, <<"b">> >>, "a"),
      QuestionDoc(<< <<"a">>, <<"b">>, <<"c">>, <<"d">> >>, "z"),
      <<"1">> }

QuizDoc(topic, difficulty, questions) ==
    Obj(<< Member("topic", <<topic>>), Member("difficulty", <<difficulty>>),
           Member("questions", questions) >>)
QuizDocs ==
    {QuizDoc("T", "easy", Arr(<<q>>)) : q \in QuestionDocs}
    \cup {QuizDoc("T", "easy", Arr(<<GoodQuestion, q>>)) : q \in QuestionDocs}
    \cup {QuizDoc("U", "hard", Arr(<<GoodQuestion>>)), QuizDoc("T", "easy", <<"1">>),
          QuizDoc("T", "easy", <<"k">>)}

SceneDoc == Obj(<< Member("narration", <<"a">>), Member("visual_prompt", <<"b">>) >>)

\* Well-formed JSON objects.
ObjectDocs ==
    {ResumeDoc(x) : x \in {"75", "150", "-5", "0", "85.5", "150%"}}
    \cup { <<"{", "}">>,
           Obj(<< Member("k", <<"1">>) >>),
           Obj(<< Member("match_score", <<"50">>) >>),
           Obj(<< Member("scenes", Arr(<<SceneDoc>>)) >>),
           Obj(<< Member("scenes", <<"1">>) >>) }
    \cup QuizDocs

\* Well-formed JSON arrays and scalars.
OtherDocs ==
    { <<"[", "]">>, Arr(<< <<"1">> >>), Arr(<<GoodQuestion>>), Arr(<<SceneDoc>>),
      Arr(<< <<"strengths">>, <<"improvements">>, <<"match_score">>, <<"summary">> >>),
      <<"1">>, <<"a">> }

Docs == ObjectDocs \cup OtherDocs

FenceJson(d) == <<Fence, JsonTag, Nl>> \o d \o <<Nl, Fence>>
FencePlain(d) == <<Fence, Nl>> \o d \o <<Nl, Fence>>
Chatty(d) == <<Prose, Sp>> \o d

\* d, bare or inside a code fence.
Fenced(d) == {d, FenceJson(d), FencePlain(d)}
Wraps(d) == Fenced(d) \cup {Chatty(d)}

InsertAt(t, i, x) == SubSeq(t, 1, i - 1) \o <<x>> \o SubSeq(t, i, Len(t))

\* The last lexeme before i that is not white space ("" when there is none).
PrevLexeme(t, i) == IF PrevIdx(t, i + 1) = 0 THEN "" ELSE t[PrevIdx(t, i + 1)]

\* d with one comma added after the last element of one object or array.
TrailingCommas(d) ==
    { InsertAt(d, i, ",") :
        i \in {j \in DOMAIN d : d[j] \in {"}", "]"} /\ PrevLexeme(d, j - 1) \notin {"{", "["}} }

\* d cut short.
Truncations(d) == {SubSeq(d, 1, k) : k \in 1..(Len(d) - 1)}

ModelTexts ==
    ShortTexts
    \cup UNION {Wraps(d) : d \in Docs}
    \cup UNION {UNION {Fenced(c) : c \in TrailingCommas(d)} : d \in Docs}
    \cup UNION {Truncations(d) : d \in {ResumeDoc("75"), Arr(<<SceneDoc>>)}}
    \cup {InsertAt(d, 2, Comment) : d \in ObjectDocs}

Finishes == {NoCandidates, 0, FinishStop, FinishMaxTokens, FinishSafety, FinishRecitation, FinishOther}

\* The outcomes of one SDK call whose text, if any, is in texts.
SdkOutcomes(texts) ==
    {SdkNoModel, SdkCallRaises}
    \cup {SdkResponse(f, FALSE, <<>>) : f \in Finishes}
    \cup {SdkResponse(f, TRUE, t) : f \in {FinishStop, FinishMaxTokens}, t \in texts}

FewTexts ==
    { <<>>, <<Sp>>, <<"{", "}">>, <<"{">>, <<Prose>>, Arr(<<SceneDoc>>), Arr(<< <<"1">> >>) }

\* ==================================================================== state

VARIABLES
    call,       \* the last operation run and its inputs
    ret,        \* what it returned or raised
    quizDbUp,   \* routes/quizzes.py connected to MongoDB at import
    quizzes,    \* the quizzes collection: quiz id -> document
    chatDbUp,   \* routes/chatbot.py has its chat_sessions_col
    chats,      \* the chat sessions collection: session id -> document
    chatHistory, \* the messages save_chat_message inserted, oldest first
    activeSessions, \* the active_sessions collection: a list of documents
    roadmapDb,  \* routes/roadmap.py holds a database handle (db is not None)
    roadmapsDb, \* the roadmaps collection: roadmap id -> document
    roadmapsMem \* _in_memory_roadmaps: roadmap id -> document

quizStore == <<quizDbUp, quizzes>>
chatStore == <<chatDbUp, chats, chatHistory>>
roadmapStore == <<roadmapDb, roadmapsDb, roadmapsMem>>
otherThanQuiz == <<chatStore, activeSessions, roadmapStore>>
stores == <<quizStore, chatStore, activeSessions, roadmapStore>>
vars == <<call, ret, stores>>

\* ------------------------------------------------ POST /api/resume/analyze

\* fetched: what fetching and parsing the uploaded file gives when
\* resume_text is empty: "ok", "unsupported" (file type) or "error".
ResumeAnalyzeRoute(jobDescription, resumeText, publicId, fetched, sdk) ==
    IF jobDescription = "" THEN [status |-> 400, analysis |-> None]
    ELSE IF resumeText = "" /\ publicId = "" THEN [status |-> 400, analysis |-> None]
    ELSE IF resumeText = "" /\ fetched = "unsupported" THEN [status |-> 400, analysis |-> None]
    ELSE IF resumeText = "" /\ fetched = "error" THEN [status |-> 500, analysis |-> None]
    ELSE LET r == AnalyzeResume(sdk) IN
         IF r.raised \/ ~r.success
         THEN [status |-> 500, analysis |-> None]
         ELSE [status |-> 200, analysis |-> r.value]

\* ------------------------------------------------------------------ actions
\* A request is taken up when the server is idle and answered before the
\* next one: each handler runs to completion (spec section 5).

Idle == call.op = "idle"

\* The second SDK call of generate_video_with_veo3 (the visual script).
ScriptOutcomes ==
    { SdkResponse(FinishSafety, FALSE, <<>>),
      SdkResponse(FinishStop, TRUE, Arr(<<SceneDoc>>)),
      SdkResponse(FinishStop, TRUE, <<"{">>) }

CallGenerateAiResponse ==
    /\ Idle
    /\ \E aiType \in AiTypes, sdk \in SdkOutcomes(FewTexts) :
           /\ call' = [op |-> "generate_ai_response", aiType |-> aiType, sdk |-> sdk]
           /\ ret' = GenerateAiResponse(aiType, sdk)
           /\ UNCHANGED stores

CallAnalyzeResume ==
    /\ Idle
    /\ \E sdk \in SdkOutcomes(ModelTexts) :
           /\ call' = [op |-> "analyze_resume", sdk |-> sdk]
           /\ ret' = AnalyzeResume(sdk)
           /\ UNCHANGED stores

CallGenerateRoadmapContent ==
    /\ Idle
    /\ \E sdk \in SdkOutcomes(ModelTexts), weeks \in {12} :
           /\ call' = [op |-> "generate_roadmap_content", sdk |-> sdk, weeks |-> weeks]
           /\ ret' = GenerateRoadmapContent("T", weeks, sdk)
           /\ UNCHANGED stores

CallGenerateQuizContent ==
    /\ Idle
    /\ \E sdk \in SdkOutcomes(ModelTexts) :
           /\ call' = [op |-> "generate_quiz_content", sdk |-> sdk]
           /\ ret' = GenerateQuizContent(sdk)
           /\ UNCHANGED stores

CallGenerateVisualScript ==
    /\ Idle
    /\ \E sdk \in SdkOutcomes(ModelTexts), words \in {25}, maxScenes \in {0, 3} :
           /\ call' = [op |-> "generate_visual_script", sdk |-> sdk, words |-> words,
                       maxScenes |-> maxScenes]
           /\ ret' = GenerateVisualScript(words, maxScenes, sdk)
           /\ UNCHANGED stores

CallGenerateVideoWithVeo3 ==
    /\ Idle
    /\ \E sdk \in SdkOutcomes(ModelTexts), sdk2 \in ScriptOutcomes \cup {SdkNoModel},
          veo \in {"ok", "none", "no_model"}, duration \in {3, 30} :
           /\ veo # "ok" => sdk = SdkNoModel /\ sdk2 = SdkNoModel
           /\ veo = "ok" => sdk2 # SdkNoModel
           /\ call' = [op |-> "generate_video_with_veo3", sdk |-> sdk, sdk2 |-> sdk2,
                       veo |-> veo, words |-> 25, duration |-> duration]
           /\ ret' = GenerateVideoWithVeo3(25, duration, veo, sdk, sdk2)
           /\ UNCHANGED stores

CallSafeExtractJson ==
    /\ Idle
    /\ \E t \in ModelTexts :
           /\ call' = [op |-> "_safe_extract_json", text |-> t]
           /\ ret' = SafeExtractJson(t)
           /\ UNCHANGED stores

CallCreateQuiz ==
    /\ Idle
    /\ \E sdk \in SdkOutcomes(ModelTexts), n \in 1..2 :
           /\ call' = [op |-> "create_quiz", sdk |-> sdk, topic |-> "T",
                       difficulty |-> "easy", n |-> n]
           /\ ret' = CreateQuiz("T", "easy", n, sdk)
           /\ UNCHANGED stores

PostResumeAnalyze ==
    /\ Idle
    /\ \E sdk \in SdkOutcomes(ModelTexts), jd \in {"", "jd"}, text \in {"", "cv"},
          pid \in {"", "id"}, fetched \in {"ok", "unsupported", "error"} :
           \* inputs the handler does not read are left at their defaults
           /\ text # "" => pid = "" /\ fetched = "ok"
           /\ (jd = "" \/ (text = "" /\ (pid = "" \/ fetched # "ok"))) => sdk = SdkNoModel
           /\ call' = [op |-> "POST /api/resume/analyze", sdk |-> sdk, job_description |-> jd,
                       resume_text |-> text, public_id |-> pid, fetched |-> fetched]
           /\ ret' = ResumeAnalyzeRoute(jd, text, pid, fetched, sdk)
           /\ UNCHANGED stores

\* The response is delivered; the server is idle again.
Respond ==
    /\ ~Idle
    /\ call' = [op |-> "idle"]
    /\ ret' = [raised |-> FALSE]
    /\ UNCHANGED stores

Init ==
    /\ call = [op |-> "idle"]
    /\ ret = [raised |-> FALSE]
    /\ quizDbUp \in BOOLEAN
    /\ quizzes = [i \in {} |-> None]
    /\ chatDbUp = TRUE
    /\ chats = [i \in {} |-> None]
    /\ chatHistory = <<>>
    /\ activeSessions = <<>>
    /\ roadmapDb = FALSE
    /\ roadmapsDb = [i \in {} |-> None]
    /\ roadmapsMem = [i \in {} |-> None]

\* The AI response layer alone.
NextResponse == CallGenerateAiResponse \/ Respond
SpecResponse == Init /\ [][NextResponse]_vars

\* The feature adapters and the routes over them.
NextAdapters ==
    \/ CallAnalyzeResume
    \/ CallGenerateRoadmapContent
    \/ CallGenerateQuizContent
    \/ CallGenerateVisualScript
    \/ CallGenerateVideoWithVeo3
    \/ CallSafeExtractJson
    \/ CallCreateQuiz
    \/ PostResumeAnalyze
    \/ Respond
SpecAdapters == Init /\ [][NextAdapters]_vars

\* ------------------------------------------------------- score coercion

MaxChars == 4

ScoreChars == {"0", "1", "5", ".", "-", "+", "%", Sp}

\* The values to_score is applied to: what json.loads can put under a key.
ScoreInputs ==
    {PyInt(n) : n \in (0 - 5)..152}
    \cup {PyFloat(n, 10) : n \in {0 - 15, 0 - 5, 0 - 4, 0, 4, 5, 6, 15, 25, 855, 995, 1004, 1005, 1515}}
    \cup {PyChars(cs) : cs \in SeqsUpTo(ScoreChars, MaxChars)}
    \cup {PyStr("150%"), PyStr("a"), None, PyNaN, PyInf(1), PyBool(TRUE), PyBool(FALSE),
          PyList(<<>>), PyList(<<PyInt(5)>>), PyDict(EmptyDict)}

CallToScore ==
    /\ Idle
    /\ \E val \in ScoreInputs :
           /\ call' = [op |-> "to_score", val |-> val]
           /\ ret' = ToScore(val)
           /\ UNCHANGED stores

\* _normalize_analysis(obj)['match_score'] for an object with the aliased keys.
CallNormalizedMatchScore ==
    /\ Idle
    /\ \E a \in {None, PyInt(0), PyInt(75), PyStr("150%")},
          b \in {None, PyInt(0 - 5), PyInt(150)},
          c \in {None, PyFloat(855, 10)} :
           /\ call' = [op |-> "_normalize_analysis",
                       obj |-> [match_score |-> a, match |-> b, score |-> c]]
           /\ ret' = NormalizedMatchScore([match_score |-> a, match |-> b, score |-> c])
           /\ UNCHANGED stores

NextScore == CallToScore \/ CallNormalizedMatchScore \/ Respond
SpecScore == Init /\ [][NextScore]_vars

\* ------------------------------------------------- routes/quizzes.py

MaxQuizzes == 2
MaxQuestions == 2

QuizIds == 1..MaxQuizzes
UnknownQuizId == MaxQuizzes + 1
Users == {"u1", "u2"}
Answers == {"a", "b"}

\* The questions of a quiz: ids run from 1, as create_quiz numbers them.
QuestionLists ==
    UNION {[1..n -> [id : 1..MaxQuestions, correctAnswer : Answers]] : n \in 0..MaxQuestions}
NumberedQuestionLists == {qs \in QuestionLists : \A i \in DOMAIN qs : qs[i].id = i}

\* The answers of a submission.
AnswerLists == SeqsUpTo([id : 1..MaxQuestions, answer : Answers], MaxQuestions)

HttpError(code) == [status |-> code]

\* answer_lookup.get(question_id): the last answer given under the id, or None.
RECURSIVE AnswerLookup(_, _)
AnswerLookup(answers, qid) ==
    IF answers = <<>> THEN None
    ELSE IF answers[Len(answers)].id = qid THEN PyStr(answers[Len(answers)].answer)
    ELSE AnswerLookup(SubSeq(answers, 1, Len(answers) - 1), qid)

Feedback(questions, answers) ==
    [i \in DOMAIN questions |->
        [question_id |-> questions[i].id,
         user_answer |-> AnswerLookup(answers, questions[i].id),
         correct_answer |-> questions[i].correctAnswer,
         is_correct |-> AnswerLookup(answers, questions[i].id)
                            = PyStr(questions[i].correctAnswer)]]

CorrectCount(questions, answers) ==
    Cardinality({i \in DOMAIN questions : Feedback(questions, answers)[i].is_correct})

\* submit_quiz, once the body is read: a collection of None, and the division
\* by a total of zero, raise inside the try and are answered 500.
SubmitQuizResult(quiz_id, answers) ==
    IF ~quizDbUp THEN HttpError(500)
    ELSE IF quiz_id \notin DOMAIN quizzes THEN HttpError(404)
    ELSE LET questions == quizzes[quiz_id].questions
             total == Len(questions)
             correct == CorrectCount(questions, answers)
         IN  IF total = 0 THEN HttpError(500)
             ELSE [status |-> 200, score |-> correct, total |-> total,
                   percentage |-> PyRound(100 * correct, total),
                   feedback |-> Feedback(questions, answers)]

\* POST /api/quizzes/submit
SubmitQuiz ==
    /\ Idle
    /\ \E body \in BOOLEAN, quiz_id \in QuizIds \cup {UnknownQuizId}, answers \in AnswerLists :
           /\ ~body => quiz_id = UnknownQuizId /\ answers = <<>>
           /\ call' = [op |-> "POST /api/quizzes/submit", body |-> body,
                       quiz_id |-> quiz_id, answers |-> answers]
           /\ ret' = IF ~body THEN HttpError(400) ELSE SubmitQuizResult(quiz_id, answers)
           /\ UNCHANGED stores

\* The topics a client sends: None stands for a body without the key.
Topics == {None, PyStr("T")}

BlankQuizEntry(id, topic, questions, user) ==
    [id |-> id, topic |-> PyStr("Untitled Quiz"), difficulty |-> "easy",
     questions |-> <<>>, created_by |-> user, num_questions |-> 0]

\* quiz_entry: the body's fields, with the defaults of quiz_data.get.
QuizEntry(id, topic, questions, user) ==
    [id |-> id, topic |-> IF topic = None THEN PyStr("Untitled Quiz") ELSE topic,
     difficulty |-> "easy", questions |-> questions, created_by |-> user,
     num_questions |-> Len(questions)]

\* POST /api/tools/quizzes: the quiz is stored under a fresh uuid4.
SaveQuiz ==
    /\ Idle
    /\ \E body \in BOOLEAN, user \in Users, topic \in Topics,
          questions \in NumberedQuestionLists, id \in QuizIds \ DOMAIN quizzes :
           /\ ~body => user = "u1" /\ questions = <<>> /\ topic = None
           /\ call' = [op |-> "POST /api/tools/quizzes", body |-> body, user_email |-> user,
                       topic |-> topic, questions |-> questions]
           /\ IF ~body
              THEN ret' = HttpError(400) /\ UNCHANGED stores
              ELSE IF ~quizDbUp
              THEN ret' = HttpError(500) /\ UNCHANGED stores
              ELSE /\ ret' = [status |-> 200, quiz_id |-> id]
                   /\ quizzes' = [q \in DOMAIN quizzes \cup {id} |->
                                    IF q = id THEN QuizEntry(id, topic, questions, user)
                                    ELSE quizzes[q]]
                   /\ UNCHANGED <<quizDbUp, otherThanQuiz>>

\* GET /api/tools/quizzes?user_email=...
ListQuizzes ==
    /\ Idle
    /\ \E user \in Users \cup {""} :
           /\ call' = [op |-> "GET /api/tools/quizzes", user_email |-> user]
           /\ ret' = IF user = "" THEN HttpError(400)
                     ELSE IF ~quizDbUp THEN [status |-> 200, quizzes |-> {}]
                     ELSE [status |-> 200,
                           quizzes |-> {[id |-> q, title |-> quizzes[q].topic,
                                         questions |-> Len(quizzes[q].questions),
                                         quiz_data |-> quizzes[q]] :
                                        q \in {x \in DOMAIN quizzes : quizzes[x].created_by = user}}]
           /\ UNCHANGED stores

\* DELETE /api/tools/quizzes/<quiz_id>
DeleteQuiz ==
    /\ Idle
    /\ \E quiz_id \in QuizIds \cup {UnknownQuizId} :
           /\ call' = [op |-> "DELETE /api/tools/quizzes", quiz_id |-> quiz_id]
           /\ IF ~quizDbUp
              THEN ret' = HttpError(500) /\ UNCHANGED stores
              ELSE IF quiz_id \notin DOMAIN quizzes
              THEN ret' = HttpError(404) /\ UNCHANGED stores
              ELSE /\ ret' = [status |-> 200, deleted_quiz_id |-> quiz_id]
                   /\ quizzes' = [q \in DOMAIN quizzes \ {quiz_id} |-> quizzes[q]]
                   /\ UNCHANGED <<quizDbUp, otherThanQuiz>>

NextQuiz == SaveQuiz \/ ListQuizzes \/ DeleteQuiz \/ SubmitQuiz \/ Respond
SpecQuiz == Init /\ [][NextQuiz]_vars

\* ----------------------------------------- conversation history in prompts

\* The number of history entries a prompt keeps ([-10:]).
HistoryCap == 10
MaxHistory == 12

\* The texts of the messages of a history, one per position.
Words == <<"w1", "w2", "w3", "w4", "w5", "w6", "w7", "w8", "w9", "w10",
           "w11", "w12", "w13", "w14">>

\* seq[-k:] without the slice (used as a fault of PyLast).
PyAll(h, k) == h

\* seq[-k:]
PyLast(h, k) == SubSeq(h, Max(1, Len(h) - k + 1), Len(h))

\* A history: the i-th message says Words[i]; one message may be padded with
\* spaces, blank, empty, or written by another role.
HistoryMsg(i, odd) ==
    [role |-> IF i % 2 = 1 THEN "user" ELSE "assistant",
     content |-> CASE odd = "padded" -> <<Sp, Words[i], Sp>>
                   [] odd = "blank" -> <<Sp>>
                   [] odd = "empty" -> <<>>
                   [] OTHER -> <<Words[i]>>]
Histories ==
    {[i \in 1..n |-> IF i = p
                     THEN IF odd = "system"
                          THEN [HistoryMsg(i, "plain") EXCEPT !.role = "system"]
                          ELSE HistoryMsg(i, odd)
                     ELSE HistoryMsg(i, "plain")] :
        n \in 0..MaxHistory, p \in 0..MaxHistory,
        odd \in {"padded", "blank", "empty", "system"}}

\* The history lines generate_ai_response writes into full_prompt.
PromptHistory(conversation_history) ==
    LET history == PyLast(conversation_history, HistoryCap)
        line(i) == [n |-> i,
                    role |-> IF history[i].role = "user" THEN "Student" ELSE "Tutor",
                    content |-> Strip(history[i].content)]
    IN  SelectSeq([i \in DOMAIN history |-> line(i)], LAMBDA l : l.content # <<>>)

\* get_tutor_response: the context it hands to generate_ai_response, the
\* prompt history built from it, and the result of the call. Without a model
\* the call raises before a prompt is built.
GetTutorResponse(conversation_history, sdk) ==
    LET context == IF conversation_history # <<>>
                   THEN PyLast(conversation_history, HistoryCap) ELSE <<>>
    IN  [prompted |-> sdk.kind # "no_model",
         history |-> IF sdk.kind = "no_model" THEN <<>> ELSE PromptHistory(context),
         result |-> GenerateAiResponse("tutor", sdk)]

\* get_ai_response of routes/chatbot.py: the conversation context of the
\* prompt and the answer, None when the SDK is missing, the call raises, the
\* text is not accessible or the text is empty.
ChatPromptHistory(chat_history) ==
    LET recent_history == IF Len(chat_history) > HistoryCap
                          THEN PyLast(chat_history, HistoryCap) ELSE chat_history
        line(i) == [n |-> 0,
                    role |-> IF recent_history[i].role = "user" THEN "Student" ELSE "Tutor",
                    content |-> recent_history[i].content]
    IN  SelectSeq([i \in DOMAIN recent_history |->
                      [l |-> line(i), keep |-> recent_history[i].role \in {"user", "assistant"}
                                               /\ recent_history[i].content # <<>>]],
                  LAMBDA e : e.keep)

GetAiResponse(chat_history, sdk) ==
    LET lines == ChatPromptHistory(chat_history) IN
    [prompted |-> sdk.kind # "no_model",
     history |-> IF sdk.kind = "no_model" THEN <<>> ELSE [i \in DOMAIN lines |-> lines[i].l],
     answer |-> IF sdk.kind = "response" /\ sdk.textOk /\ sdk.text # <<>>
                   /\ Strip(sdk.text) # <<>>
                THEN PyStr(Strip(sdk.text)) ELSE None]

PromptSdk == {SdkNoModel, SdkCallRaises, SdkResponse(FinishStop, TRUE, <<"k">>)}

CallGetTutorResponse ==
    /\ Idle
    /\ \E h \in Histories, sdk \in PromptSdk :
           /\ call' = [op |-> "get_tutor_response", history |-> h, sdk |-> sdk]
           /\ ret' = GetTutorResponse(h, sdk)
           /\ UNCHANGED stores

CallGetAiResponse ==
    /\ Idle
    /\ \E h \in Histories, sdk \in PromptSdk :
           /\ call' = [op |-> "get_ai_response", history |-> h, sdk |-> sdk]
           /\ ret' = GetAiResponse(h, sdk)
           /\ UNCHANGED stores

NextPrompt == CallGetTutorResponse \/ CallGetAiResponse \/ Respond
SpecPrompt == Init /\ [][NextPrompt]_vars

\* ------------------------------------------------- routes/chatbot.py

MaxChats == 2
MaxMsgs == 2

\* Session ids are ObjectIds. NoChatId: the request names no session;
\* BadChatId: a string ObjectId() rejects.
ChatIds == 1..MaxChats
NoChatId == 0
BadChatId == MaxChats + 1

ChatMsg(role, content) == [role |-> role, content |-> content]
UserMsg == ChatMsg("user", <<"w1">>)
TutorMsg == ChatMsg("assistant", <<"w2">>)

\* The message lists a client sends (chatHistory, messages).
ClientMessages == SeqsUpTo({UserMsg, TutorMsg}, MaxMsgs)

\* The canned text send_message answers with when get_ai_response gives None.
FallbackAnswer == <<"I understand you're asking about">>

\* An ObjectId() no document has and no client names.
FreshChatId(used) == IF ChatIds \ used = {} THEN NoChatId ELSE SetMin(ChatIds \ used)

ChatsOf(store, user) == {i \in DOMAIN store : store[i].owner = user}
Without(store, ids) == [i \in DOMAIN store \ ids |-> store[i]]
With(store, id, doc) == [i \in DOMAIN store \cup {id} |-> IF i = id THEN doc ELSE store[i]]

\* POST /api/chat/createChat
CreateChat ==
    /\ Idle
    /\ \E body \in BOOLEAN, user \in Users \cup {""} :
           /\ ~body => user = ""
           /\ call' = [op |-> "POST /api/chat/createChat", body |-> body, user |-> user]
           /\ IF ~body \/ user = ""
              THEN ret' = HttpError(400) /\ UNCHANGED stores
              ELSE IF ~chatDbUp
              THEN ret' = HttpError(500) /\ UNCHANGED stores
              ELSE /\ FreshChatId(DOMAIN chats) # NoChatId
                   /\ ret' = [status |-> 200, success |-> TRUE,
                              id |-> FreshChatId(DOMAIN chats)]
                   /\ chats' = With(chats, FreshChatId(DOMAIN chats),
                                    [owner |-> user, messages |-> <<>>])
                   /\ UNCHANGED <<quizStore, chatDbUp, chatHistory, activeSessions, roadmapStore>>

\* PUT /api/chat/updateMessages/<session_id>/messages
UpdateMessages ==
    /\ Idle
    /\ \E body \in BOOLEAN, user \in Users \cup {""}, session_id \in ChatIds \cup {BadChatId},
          messages \in ClientMessages :
           /\ ~body => user = "" /\ messages = <<>>
           /\ call' = [op |-> "PUT /api/chat/updateMessages", body |-> body, user |-> user,
                       session_id |-> session_id, messages |-> messages]
           /\ IF ~body \/ user = ""
              THEN ret' = HttpError(400) /\ UNCHANGED stores
              ELSE IF ~chatDbUp \/ session_id = BadChatId
              THEN ret' = HttpError(500) /\ UNCHANGED stores
              ELSE IF session_id \in ChatsOf(chats, user)
              THEN /\ ret' = [status |-> 200, success |-> TRUE]
                   /\ chats' = [chats EXCEPT ![session_id].messages = messages]
                   /\ UNCHANGED <<quizStore, chatDbUp, chatHistory, activeSessions, roadmapStore>>
              ELSE ret' = [status |-> 200, success |-> FALSE] /\ UNCHANGED stores

\* POST /api/chat/message
SendMessage ==
    /\ Idle
    /\ \E body \in BOOLEAN, input \in {<<>>, <<Sp>>, <<"w3">>}, user \in Users \cup {""},
          chat_history \in ClientMessages, session_id \in ChatIds \cup {NoChatId, BadChatId},
          sdk \in PromptSdk :
           /\ ~body => input = <<>> /\ user = ""
           /\ (~body \/ Strip(input) = <<>> \/ user = "")
                  => chat_history = <<>> /\ session_id = NoChatId /\ sdk = SdkNoModel
           /\ call' = [op |-> "POST /api/chat/message", body |-> body, input |-> input,
                       user |-> user, history |-> chat_history, session_id |-> session_id,
                       sdk |-> sdk]
           /\ LET ai == GetAiResponse(chat_history, sdk).answer
                  ai_response == IF ai = None THEN FallbackAnswer ELSE Val(ai)
                  updated_history == chat_history \o <<ChatMsg("user", Strip(input)),
                                                       ChatMsg("assistant", ai_response)>>
                  ok == [status |-> 200, success |-> TRUE, message |-> ai_response]
              IN  IF ~body \/ Strip(input) = <<>> \/ user = ""
                  THEN ret' = HttpError(400) /\ UNCHANGED stores
                  ELSE IF session_id = NoChatId
                  THEN ret' = ok /\ UNCHANGED stores
                  ELSE IF ~chatDbUp \/ session_id = BadChatId
                  THEN ret' = HttpError(500) /\ UNCHANGED stores
                  ELSE IF session_id \in ChatsOf(chats, user)
                  THEN /\ ret' = ok
                       /\ chats' = [chats EXCEPT ![session_id].messages = updated_history]
                       /\ UNCHANGED <<quizStore, chatDbUp, chatHistory, activeSessions, roadmapStore>>
                  ELSE ret' = ok /\ UNCHANGED stores

\* The sessions a client sends to saveChat: with or without an id.
SessionDocs == [id : ChatIds \cup {NoChatId, BadChatId}, messages : {<<>>, <<UserMsg>>}]

\* The loop of save_chat_sessions over the sessions, after the delete_many:
\* replace_one(..., upsert=True) under the given or a fresh ObjectId. A bad id
\* raises and leaves what was written so far. taken: the ids no fresh
\* ObjectId may equal.
RECURSIVE SaveSessions(_, _, _, _)
SaveSessions(store, sessions, user, taken) ==
    IF sessions = <<>> THEN [status |-> 200, store |-> store, full |-> FALSE]
    ELSE LET session == Head(sessions)
             id == IF session.id = NoChatId THEN FreshChatId(taken) ELSE session.id
         IN  IF session.id = BadChatId THEN [status |-> 500, store |-> store, full |-> FALSE]
             ELSE IF id = NoChatId THEN [status |-> 200, store |-> store, full |-> TRUE]
             ELSE SaveSessions(With(store, id, [owner |-> user, messages |-> session.messages]),
                               Tail(sessions), user, taken \cup {id})

\* PUT /api/chat/saveChat
SaveChat ==
    /\ Idle
    /\ \E body \in BOOLEAN, user \in Users \cup {""}, sessions \in SeqsUpTo(SessionDocs, MaxChats) :
           /\ ~body => user = "" /\ sessions = <<>>
           /\ call' = [op |-> "PUT /api/chat/saveChat", body |-> body, user |-> user,
                       sessions |-> sessions]
           /\ IF ~body \/ user = ""
              THEN ret' = HttpError(400) /\ UNCHANGED stores
              ELSE IF ~chatDbUp
              THEN ret' = HttpError(500) /\ UNCHANGED stores
              ELSE LET r == SaveSessions(Without(chats, ChatsOf(chats, user)), sessions, user,
                                         DOMAIN chats \cup {sessions[i].id : i \in DOMAIN sessions})
                   IN  /\ ~r.full
                       /\ ret' = [status |-> r.status, success |-> r.status = 200]
                       /\ chats' = r.store
                       /\ UNCHANGED <<quizStore, chatDbUp, chatHistory, activeSessions, roadmapStore>>

\* DELETE /api/chat/deleteChat/<session_id>
DeleteChat ==
    /\ Idle
    /\ \E user \in Users \cup {""}, session_id \in ChatIds \cup {BadChatId} :
           /\ call' = [op |-> "DELETE /api/chat/deleteChat", user |-> user,
                       session_id |-> session_id]
           /\ IF user = ""
              THEN ret' = HttpError(400) /\ UNCHANGED stores
              ELSE IF ~chatDbUp \/ session_id = BadChatId
              THEN ret' = HttpError(500) /\ UNCHANGED stores
              ELSE /\ chats' = Without(chats, {session_id} \cap ChatsOf(chats, user))
                   /\ ret' = [status |-> 200, success |-> TRUE,
                              remainingSessions |-> ChatsOf(chats', user)]
                   /\ UNCHANGED <<quizStore, chatDbUp, chatHistory, activeSessions, roadmapStore>>

\* GET /api/chat/loadChat
LoadChat ==
    /\ Idle
    /\ \E user \in Users \cup {""} :
           /\ call' = [op |-> "GET /api/chat/loadChat", user |-> user]
           /\ ret' = IF user = "" THEN HttpError(400)
                     ELSE IF ~chatDbUp THEN HttpError(500)
                     ELSE [status |-> 200, success |-> TRUE,
                           sessions |-> {[id |-> i, messages |-> chats[i].messages] :
                                            i \in ChatsOf(chats, user)}]
           /\ UNCHANGED stores

InitChat ==
    /\ call = [op |-> "idle"]
    /\ ret = [raised |-> FALSE]
    /\ quizDbUp = TRUE
    /\ quizzes = [i \in {} |-> None]
    /\ chatDbUp \in BOOLEAN
    /\ chats = [i \in {} |-> None]
    /\ chatHistory = <<>>
    /\ activeSessions = <<>>
    /\ roadmapDb = FALSE
    /\ roadmapsDb = [i \in {} |-> None]
    /\ roadmapsMem = [i \in {} |-> None]

NextChat ==
    \/ CreateChat
    \/ UpdateMessages
    \/ SendMessage
    \/ SaveChat
    \/ DeleteChat
    \/ LoadChat
    \/ Respond
SpecChat == InitChat /\ [][NextChat]_vars

\* ------------------------------------- active sessions and routes/tutor.py

MaxTime == 2
\* What datetime.utcnow() reads, in whole seconds.
Times == 1..MaxTime
Modes == {"tutor", "quiz"}
Subjects == {<<"w1">>, <<"w1", Sp, "w2">>, <<"w1", "_", "w2">>}
NoSessionId == <<>>

\* subject.replace(' ', '_')
ReplaceSpaces(subject) == [i \in DOMAIN subject |-> IF subject[i] = Sp THEN "_" ELSE subject[i]]

\* f"tutor_{mode}_{subject.replace(' ', '_')}_{timestamp}", the timestamp
\* being the clock formatted to the second.
SessionId(mode, subject, timestamp) ==
    <<"tutor", "_", mode, "_">> \o ReplaceSpaces(subject) \o <<"_", timestamp>>

\* The session ids a client sends back.
SessionIds == {SessionId("tutor", <<"w1">>, t) : t \in Times}

\* session_data of start_session, with the user_email save_active_session adds.
SessionData(user, mode, subject, now) ==
    [user_email |-> user, session_id |-> SessionId(mode, subject, now), mode |-> mode,
     subject |-> subject, started_at |-> now]

\* The clock does not run backwards: now is no earlier than a stored start.
NotBefore(coll, now) == \A i \in DOMAIN coll : coll[i].started_at <= now

SessionsOf(coll, user) == {i \in DOMAIN coll : coll[i].user_email = user}

\* insert_one(doc) (used as a fault of ReplaceOneUpsert).
InsertOne(coll, user, doc) == Append(coll, doc)

\* replace_one({'user_email': user}, doc, upsert=True): the first matching
\* document is replaced; without a match the document is inserted.
ReplaceOneUpsert(coll, user, doc) ==
    IF SessionsOf(coll, user) = {} THEN Append(coll, doc)
    ELSE [coll EXCEPT ![SetMin(SessionsOf(coll, user))] = doc]

\* delete_one({'user_email': user}): the first matching document is removed.
DeleteOne(coll, user) ==
    IF SessionsOf(coll, user) = {} THEN coll
    ELSE Keep(coll, DOMAIN coll \ {SetMin(SessionsOf(coll, user))})

\* (used as a fault of GetActiveSession)
GetNoSession(coll, user) == None

\* get_active_session, with a collection: the first match, or {} (None here).
GetActiveSession(coll, user) ==
    IF SessionsOf(coll, user) = {} THEN None
    ELSE PyDict(coll[SetMin(SessionsOf(coll, user))])

\* save_active_session(user_email, session_data): db is what get_collection
\* finds at this call; without a collection the function raises.
CallSaveActiveSession ==
    /\ Idle
    /\ \E user \in Users, now \in Times, db \in BOOLEAN :
           /\ NotBefore(activeSessions, now)
           /\ call' = [op |-> "save_active_session", user |-> user,
                       session_id |-> SessionId("tutor", <<"w1">>, now), db |-> db]
           /\ ret' = [raised |-> ~db]
           /\ activeSessions' =
                  IF db THEN ReplaceOneUpsert(activeSessions, user,
                                 SessionData(user, "tutor", <<"w1">>, now))
                  ELSE activeSessions
           /\ UNCHANGED <<quizStore, chatStore, roadmapStore>>

\* end_active_session(user_email)
CallEndActiveSession ==
    /\ Idle
    /\ \E user \in Users, db \in BOOLEAN :
           /\ call' = [op |-> "end_active_session", user |-> user, db |-> db]
           /\ ret' = [raised |-> ~db]
           /\ activeSessions' = IF db THEN DeleteOne(activeSessions, user) ELSE activeSessions
           /\ UNCHANGED <<quizStore, chatStore, roadmapStore>>

\* POST /api/tutor/session/start. dbGet, dbSave: the database at the two
\* get_collection calls; sdk: the welcome message call; now: the clock.
StartSession ==
    /\ Idle
    /\ \E body \in BOOLEAN, user \in Users \cup {""}, mode \in Modes,
          subject \in {<<>>, <<Sp>>} \cup Subjects, now \in Times,
          dbGet \in BOOLEAN, dbSave \in BOOLEAN, sdk \in PromptSdk :
           /\ NotBefore(activeSessions, now)
           /\ (~body \/ user = "" \/ Strip(subject) = <<>>)
                  => dbGet /\ dbSave /\ sdk = SdkNoModel /\ now = MaxTime /\ mode = "tutor"
           /\ ~body => user = "" /\ subject = <<>>
           /\ call' = [op |-> "POST /api/tutor/session/start", body |-> body, user |-> user,
                       mode |-> mode, subject |-> subject, now |-> now, dbGet |-> dbGet,
                       dbSave |-> dbSave, sdk |-> sdk]
           /\ LET active == GetActiveSession(activeSessions, user)
                  welcome == GetTutorResponse(<<>>, sdk).result
              IN  IF ~body \/ user = "" \/ Strip(subject) = <<>>
                  THEN ret' = [status |-> 400, success |-> FALSE] /\ UNCHANGED stores
                  ELSE IF ~dbGet
                  THEN ret' = [status |-> 500, success |-> FALSE] /\ UNCHANGED stores
                  ELSE IF active # None
                  THEN /\ ret' = [status |-> 200, success |-> TRUE,
                                  session_id |-> Val(active).session_id,
                                  mode |-> Val(active).mode, subject |-> Val(active).subject,
                                  is_resumed |-> TRUE]
                       /\ UNCHANGED stores
                  ELSE IF welcome.raised \/ ~dbSave
                  THEN ret' = [status |-> 500, success |-> FALSE] /\ UNCHANGED stores
                  ELSE /\ ret' = [status |-> 200, success |-> TRUE,
                                  session_id |-> SessionId(mode, subject, now),
                                  mode |-> mode, subject |-> subject, is_resumed |-> FALSE]
                       /\ activeSessions' = ReplaceOneUpsert(activeSessions, user,
                              SessionData(user, mode, subject, now))
                       /\ UNCHANGED <<quizStore, chatStore, roadmapStore>>

\* POST /api/tutor/session/end. NoSessionId is a request without one.
EndSession ==
    /\ Idle
    /\ \E body \in BOOLEAN, user \in Users \cup {""}, session_id \in SessionIds \cup {NoSessionId},
          db \in BOOLEAN :
           /\ (~body \/ user = "" \/ session_id = NoSessionId) => db
           /\ ~body => user = "" /\ session_id = NoSessionId
           /\ call' = [op |-> "POST /api/tutor/session/end", body |-> body, user |-> user,
                       session_id |-> session_id, db |-> db]
           /\ IF ~body \/ user = "" \/ session_id = NoSessionId
              THEN ret' = [status |-> 400, success |-> FALSE] /\ UNCHANGED stores
              ELSE IF ~db
              THEN ret' = [status |-> 200, success |-> FALSE] /\ UNCHANGED stores
              ELSE /\ ret' = [status |-> 200, success |-> TRUE]
                   /\ activeSessions' = DeleteOne(activeSessions, user)
                   /\ UNCHANGED <<quizStore, chatStore, roadmapStore>>

\* tutor_ask once the request is validated: sdk answers the question, sdk2
\* the "graceful error response" of the except branch. An exception raised
\* inside the except branch leaves the handler and is answered 500 by the
\* application's error handler.
TutorAskResult(sdk, sdk2) ==
    LET ai_result == GetTutorResponse(<<>>, sdk).result
        fallback_result == GetTutorResponse(<<>>, sdk2).result
    IN  IF ~ai_result.raised /\ ai_result.success
        THEN [status |-> 200, success |-> TRUE, response |-> ai_result.response,
              error |-> "none"]
        ELSE IF fallback_result.raised
        THEN [status |-> 500, success |-> FALSE, response |-> <<>>, error |-> fallback_result.exc]
        ELSE [status |-> 200, success |-> FALSE, response |-> fallback_result.response,
              error |-> IF ai_result.raised THEN ai_result.exc ELSE ai_result.error]

\* POST /api/tutor/ask. Whether a model is configured does not change
\* between the two calls of one request.
TutorAsk ==
    /\ Idle
    /\ \E body \in BOOLEAN, prompt \in {<<>>, <<Sp>>, <<"w1">>}, user \in Users \cup {""},
          sdk \in SdkOutcomes(FewTexts), sdk2 \in PromptSdk :
           /\ ~body => prompt = <<>> /\ user = ""
           /\ (~body \/ Strip(prompt) = <<>> \/ user = "") => sdk = SdkNoModel
           /\ (sdk = SdkNoModel) <=> (sdk2 = SdkNoModel)
           /\ call' = [op |-> "POST /api/tutor/ask", body |-> body, prompt |-> prompt,
                       user |-> user, sdk |-> sdk, sdk2 |-> sdk2]
           /\ ret' = IF ~body \/ Strip(prompt) = <<>> \/ user = ""
                     THEN [status |-> 400, success |-> FALSE, response |-> <<>>,
                           error |-> "validation"]
                     ELSE TutorAskResult(sdk, sdk2)
           /\ UNCHANGED stores

NextTutor ==
    \/ CallSaveActiveSession
    \/ CallEndActiveSession
    \/ StartSession
    \/ EndSession
    \/ TutorAsk
    \/ Respond
SpecTutor == Init /\ [][NextTutor]_vars

\* The session routes alone: every stored record was written by start_session.
NextSessions == StartSession \/ EndSession \/ Respond
SpecSessions == Init /\ [][NextSessions]_vars

\* The chat-style call sites: the chat message and the tutor question.
NextConversation == CreateChat \/ SendMessage \/ TutorAsk \/ Respond
SpecConversation == InitChat /\ [][NextConversation]_vars

\* ------------------------------------------------------ routes/roadmap.py

MaxRoadmaps == 2
RoadmapIds == 1..MaxRoadmaps
UnknownRoadmapId == MaxRoadmaps + 1

\* The answer of a route: the HTTP status, and whether the handler called the
\* generative model before answering.
Answer(code, ai) == [status |-> code, ai |-> ai]

\* What request.get_json() meets: a body that is no JSON (it raises
\* BadRequest), the JSON null, a JSON array, a JSON object.
BodyKinds == {"malformed", "null", "array", "object"}

\* The default of (duration_weeks or 8).
DefaultWeeks == 8

\* The fallback the route returns when the SDK or the API key is missing.
RouteFallbackRoadmap(goal, background, weeks) ==
    PyDict([nodes |-> PyList(<<
                PyDict([id |-> PyStr("start"), title |-> PyStr(<<"Start: ", goal>>),
                        description |-> PyStr(background), recommended_weeks |-> PyInt(1)]),
                PyDict([id |-> PyStr("fundamentals"), title |-> PyStr("Learn Fundamentals"),
                        description |-> PyStr("Master core concepts and basics"),
                        recommended_weeks |-> PyInt(Max(2, weeks \div 4))]),
                PyDict([id |-> PyStr("intermediate"), title |-> PyStr("Build Skills"),
                        description |-> PyStr("Develop intermediate-level capabilities"),
                        recommended_weeks |-> PyInt(Max(3, weeks \div 3))]),
                PyDict([id |-> PyStr("advanced"), title |-> PyStr("Advanced Topics"),
                        description |-> PyStr("Deep dive into specialized areas"),
                        recommended_weeks |-> PyInt(Max(2, weeks \div 4))]),
                PyDict([id |-> PyStr("goal"), title |-> PyStr(<<"Achieve: ", goal>>),
                        description |-> PyStr("Reach your target goal"),
                        recommended_weeks |-> PyInt(1)]) >>),
            edges |-> PyList(<<
                PyDict([from |-> PyStr("start"), to |-> PyStr("fundamentals")]),
                PyDict([from |-> PyStr("fundamentals"), to |-> PyStr("intermediate")]),
                PyDict([from |-> PyStr("intermediate"), to |-> PyStr("advanced")]),
                PyDict([from |-> PyStr("advanced"), to |-> PyStr("goal")]) >>)])

\* "Clean up the response if it contains markdown formatting": every fence,
\* with the json tag that follows it, is replaced by nothing; then strip().
RemoveFences(t) ==
    Strip(Keep(t, {i \in DOMAIN t :
                      /\ t[i] # Fence
                      /\ ~(t[i] = JsonTag /\ i > 1 /\ t[i - 1] = Fence)}))

\* The roadmap of generate_roadmap, once the request is validated: the route
\* calls the SDK itself.  how is "fallback" without SDK or key, "parsed" for
\* what json.loads makes of the cleaned response.text, "error" where the try
\* block raised (the call, the .text accessor or json.loads).
RouteRoadmap(goal, background, sdk) ==
    IF sdk.kind = "no_model"
    THEN [how |-> "fallback", data |-> RouteFallbackRoadmap(goal, background, DefaultWeeks)]
    ELSE IF sdk.kind = "call_raises" \/ ~sdk.textOk
    THEN [how |-> "error", data |-> None]
    ELSE LET p == JsonLoads(RemoveFences(sdk.text)) IN
         IF p.ok THEN [how |-> "parsed", data |-> p.val]
         ELSE [how |-> "error", data |-> None]

RoadmapTexts == FewTexts \cup {FenceJson(<<"{", "}">>)}

\* The documents of a store that answer the query {id, user_email}.
FindAnyOwner(store, roadmap_id, user_email) ==
    {i \in DOMAIN store : i = roadmap_id}
FindRoadmap(store, roadmap_id, user_email) ==
    {i \in DOMAIN store : i = roadmap_id /\ store[i].user_email = user_email}

\* connect_to_mongodb() is tried again by every handler while db is None.
Connected(connect) == roadmapDb \/ connect

\* POST /api/roadmap/generate.  An empty goal, background or user_email stands
\* for the absent key, null and the empty string, all of them falsy.
GenerateRoadmap ==
    /\ Idle
    /\ \E kind \in BodyKinds, goal \in {"", "G"}, background \in {"", "B"},
          user \in Users \cup {""}, connect \in BOOLEAN, insertFails \in BOOLEAN,
          sdk \in SdkOutcomes(RoadmapTexts),
          id \in RoadmapIds \ (DOMAIN roadmapsDb \cup DOMAIN roadmapsMem) :
           LET valid == kind = "object" /\ goal # "" /\ background # "" /\ user # ""
               r == RouteRoadmap(goal, background, sdk)
               doc == [id |-> id, user_email |-> user, title |-> goal, data |-> r.data]
           IN  /\ kind # "object" => goal = "" /\ background = "" /\ user = ""
               /\ roadmapDb => ~connect
               /\ ~valid => sdk = SdkNoModel /\ ~insertFails
               /\ (valid /\ r.how = "error") => ~insertFails
               /\ ~Connected(connect) => ~insertFails
               /\ call' = [op |-> "POST /api/roadmap/generate", kind |-> kind, goal |-> goal,
                           background |-> background, user_email |-> user, sdk |-> sdk,
                           valid |-> valid]
               /\ roadmapDb' = Connected(connect)
               /\ UNCHANGED <<quizStore, chatStore, activeSessions>>
               /\ IF kind # "object"
                  THEN ret' = Answer(500, FALSE) /\ UNCHANGED <<roadmapsDb, roadmapsMem>>
                  ELSE IF ~valid
                  THEN ret' = Answer(400, FALSE) /\ UNCHANGED <<roadmapsDb, roadmapsMem>>
                  ELSE IF r.how = "error"
                  THEN ret' = Answer(500, TRUE) /\ UNCHANGED <<roadmapsDb, roadmapsMem>>
                  ELSE /\ ret' = [status |-> 200, ai |-> r.how = "parsed",
                                  roadmap |-> r.data, how |-> r.how]
                       /\ IF Connected(connect) /\ ~insertFails
                          THEN roadmapsDb' = With(roadmapsDb, id, doc) /\ UNCHANGED roadmapsMem
                          ELSE roadmapsMem' = With(roadmapsMem, id, doc) /\ UNCHANGED roadmapsDb

\* The store a read goes to: the collection while db is set, else the dict.
ReadStore(connect) == IF Connected(connect) THEN roadmapsDb ELSE roadmapsMem

\* GET /api/roadmap/user?user_email=...
GetUserRoadmaps ==
    /\ Idle
    /\ \E user \in Users \cup {""}, connect \in BOOLEAN, dbFails \in BOOLEAN :
           /\ roadmapDb => ~connect
           /\ (user = "" \/ ~Connected(connect)) => ~dbFails
           /\ call' = [op |-> "GET /api/roadmap/user", user_email |-> user]
           /\ ret' = IF user = "" THEN HttpError(400)
                     ELSE IF dbFails THEN HttpError(500)
                     ELSE [status |-> 200,
                           roadmaps |-> {ReadStore(connect)[i] :
                                           i \in {j \in DOMAIN ReadStore(connect) :
                                                    ReadStore(connect)[j].user_email = user}}]
           /\ roadmapDb' = Connected(connect)
           /\ UNCHANGED <<quizStore, chatStore, activeSessions, roadmapsDb, roadmapsMem>>

\* GET and DELETE /api/roadmap/<roadmap_id>?user_email=...
GetRoadmapById ==
    /\ Idle
    /\ \E method \in {"GET", "DELETE"}, roadmap_id \in RoadmapIds \cup {UnknownRoadmapId},
          user \in Users \cup {""}, connect \in BOOLEAN, dbFails \in BOOLEAN :
           LET found == FindRoadmap(ReadStore(connect), roadmap_id, user) IN
           /\ roadmapDb => ~connect
           /\ (user = "" \/ ~Connected(connect)) => ~dbFails
           /\ call' = [op |-> "/api/roadmap/<roadmap_id>", method |-> method,
                       roadmap_id |-> roadmap_id, user_email |-> user, db_fails |-> dbFails]
           /\ roadmapDb' = Connected(connect)
           /\ UNCHANGED <<quizStore, chatStore, activeSessions>>
           /\ IF user = ""
              THEN ret' = HttpError(400) /\ UNCHANGED <<roadmapsDb, roadmapsMem>>
              ELSE IF dbFails
              THEN ret' = HttpError(500) /\ UNCHANGED <<roadmapsDb, roadmapsMem>>
              ELSE IF found = {}
              THEN ret' = HttpError(404) /\ UNCHANGED <<roadmapsDb, roadmapsMem>>
              ELSE IF method = "GET"
              THEN /\ ret' = [status |-> 200, roadmap |-> ReadStore(connect)[roadmap_id]]
                   /\ UNCHANGED <<roadmapsDb, roadmapsMem>>
              ELSE /\ ret' = [status |-> 200, success |-> TRUE]
                   /\ IF Connected(connect)
                      THEN roadmapsDb' = Without(roadmapsDb, found) /\ UNCHANGED roadmapsMem
                      ELSE roadmapsMem' = Without(roadmapsMem, found) /\ UNCHANGED roadmapsDb

\* The PDF is built from a document whose data is a dict whose nodes, if any,
\* carry a title and a description; anything else raises inside the try.
PdfRenders(data) ==
    /\ Tag(data) = "dict"
    /\ "nodes" \in DOMAIN Val(data) =>
           /\ Tag(Val(data)["nodes"]) = "list"
           /\ \A i \in DOMAIN Val(Val(data)["nodes"]) :
                  LET node == Val(Val(data)["nodes"])[i] IN
                  Tag(node) = "dict" /\ {"title", "description"} \subseteq DOMAIN Val(node)

\* GET /api/roadmap/download/<roadmap_id>?user_email=...
DownloadRoadmap ==
    /\ Idle
    /\ \E roadmap_id \in RoadmapIds \cup {UnknownRoadmapId}, user \in Users \cup {""},
          connect \in BOOLEAN, dbFails \in BOOLEAN :
           LET found == FindRoadmap(ReadStore(connect), roadmap_id, user) IN
           /\ roadmapDb => ~connect
           /\ (user = "" \/ ~Connected(connect)) => ~dbFails
           /\ call' = [op |-> "GET /api/roadmap/download", roadmap_id |-> roadmap_id,
                       user_email |-> user, db_fails |-> dbFails]
           /\ ret' = IF user = "" THEN HttpError(400)
                     ELSE IF dbFails THEN HttpError(500)
                     ELSE IF found = {} THEN HttpError(404)
                     ELSE IF PdfRenders(ReadStore(connect)[roadmap_id].data)
                     THEN [status |-> 200, pdf |-> ReadStore(connect)[roadmap_id]]
                     ELSE HttpError(500)
           /\ roadmapDb' = Connected(connect)
           /\ UNCHANGED <<quizStore, chatStore, activeSessions, roadmapsDb, roadmapsMem>>

\* The module connects once at import.
InitRoadmap ==
    /\ call = [op |-> "idle"]
    /\ ret = [raised |-> FALSE]
    /\ quizDbUp = TRUE
    /\ quizzes = [i \in {} |-> None]
    /\ chatDbUp = TRUE
    /\ chats = [i \in {} |-> None]
    /\ chatHistory = <<>>
    /\ activeSessions = <<>>
    /\ roadmapDb \in BOOLEAN
    /\ roadmapsDb = [i \in {} |-> None]
    /\ roadmapsMem = [i \in {} |-> None]

NextRoadmap ==
    \/ GenerateRoadmap
    \/ GetUserRoadmaps
    \/ GetRoadmapById
    \/ DownloadRoadmap
    \/ Respond
SpecRoadmap == InitRoadmap /\ [][NextRoadmap]_vars

\* ------------------------------------------- request fields and validation

\* What data.get(key) meets: no such key, the JSON null, strings, a number.
Absent == <<"absent", 0>>
FieldValues == {Absent, None, PyStr(""), PyStr(" "), PyStr("x"), PyInt(5)}

\* data.get(key) and data.get(key, default)
GetField(v) == IF v = Absent THEN None ELSE v
GetFieldOr(v, default) == IF v = Absent THEN default ELSE v

\* bool(v) is False
Falsy(v) == v \in {None, PyStr(""), PyInt(0)}

\* (v or default)
OrElse(v, default) == IF Falsy(v) THEN default ELSE v

\* v.strip() of a string; on anything else the attribute is missing.
IsStr(v) == Tag(v) = "str"
StripStr(v) == IF Val(v) = " " THEN PyStr("") ELSE v

QuizMin == 5
QuizMax == 20
Difficulties == {PyStr("easy"), PyStr("medium"), PyStr("hard")}

\* POST /api/quizzes/generate: the whole handler runs inside one try, so what
\* get_json, strip() or lower() raise is answered 500.
GenerateQuizRoute(kind, topic, difficulty, n, sdk) ==
    LET t == GetFieldOr(topic, PyStr(""))
        d == GetFieldOr(difficulty, PyStr("medium"))
        num == GetFieldOr(n, PyInt(10))
    IN  IF kind = "malformed" THEN Answer(500, FALSE)
        ELSE IF kind = "null" THEN Answer(400, FALSE)
        ELSE IF kind = "array" THEN Answer(500, FALSE)
        ELSE IF ~IsStr(t) \/ ~IsStr(d) THEN Answer(500, FALSE)
        ELSE IF StripStr(t) = PyStr("") THEN Answer(400, FALSE)
        ELSE IF d \notin Difficulties THEN Answer(400, FALSE)
        ELSE IF Tag(num) # "int" \/ Val(num) < QuizMin \/ Val(num) > QuizMax
        THEN Answer(400, FALSE)
        ELSE IF CreateQuiz("T", "easy", Val(num), sdk).raised THEN Answer(500, TRUE)
        ELSE Answer(200, TRUE)

\* POST /api/resume/analyze: nothing before the AI call is inside a try.
ResumeAnalyzeRequest(kind, job_description, resume_text, public_id, fetched, sdk) ==
    LET jd == OrElse(GetField(job_description), PyStr(""))
        rt == OrElse(GetField(resume_text), PyStr(""))
        pid == GetField(public_id)
        route == ResumeAnalyzeRoute(Val(StripStr(jd)), Val(StripStr(rt)),
                                    IF Falsy(pid) THEN "" ELSE "p", fetched, sdk)
    IN  IF kind \in {"malformed", "array"} THEN Answer(500, FALSE)
        ELSE IF ~IsStr(rt) \/ ~IsStr(jd) THEN Answer(500, FALSE)
        ELSE Answer(route.status,
                    /\ StripStr(jd) # PyStr("")
                    /\ StripStr(rt) # PyStr("") \/ (~Falsy(pid) /\ fetched = "ok"))

\* The scenes the text-to-video route makes of video_spec['scenes']:
\* ok = FALSE where slicing the visual prompt raises.
Sliceable(v) == Tag(v) \in {"str", "list"}
RouteScenes(video_scenes) ==
    LET xs == IF IsList(video_scenes) THEN Val(video_scenes) ELSE <<>>
        prompt(x) == Get(Val(x), "visual_prompt",
                         Get(Val(x), "visual_description", PyStr("")))
    IN  IF \A i \in DOMAIN xs : IsDict(xs[i]) /\ Sliceable(prompt(xs[i]))
        THEN [ok |-> TRUE,
              val |-> PyList([i \in DOMAIN xs |->
                         PyDict([narration |-> Get(Val(xs[i]), "narration", PyStr("")),
                                 visual_description |-> prompt(xs[i]),
                                 duration |-> Get(Val(xs[i]), "duration", PyInt(5))])])]
        ELSE [ok |-> FALSE, val |-> None]

VideoAnswer(code, ai, scenes) == [status |-> code, ai |-> ai, scenes |-> scenes]

\* What the route makes of video_result: the scenes of its video_spec when
\* it has one with scenes, else its fallback_scenes.
VideoResultAnswer(v, ai) ==
    IF v.success /\ IsDict(v.value) /\ HasKey(v.value, "scenes")
    THEN CHOOSE a \in {IF sc.ok THEN VideoAnswer(200, ai, sc.val) ELSE VideoAnswer(500, ai, None) :
                          sc \in {RouteScenes(Val(v.value)["scenes"])}} : TRUE
    ELSE VideoAnswer(200, ai, v.scenes)

\* POST /api/visual/text-to-video.  get_json(silent=True) turns a body that is
\* no JSON into None; data.get and text.strip() run outside the try.
TextToVideoRoute(kind, text, duration, veo, sdk, sdk2) ==
    IF kind \in {"malformed", "null"} THEN VideoAnswer(400, FALSE, None)
    ELSE IF kind = "array" THEN VideoAnswer(500, FALSE, None)
    ELSE IF Falsy(GetField(text)) THEN VideoAnswer(400, FALSE, None)
    ELSE IF ~IsStr(GetField(text)) THEN VideoAnswer(500, FALSE, None)
    ELSE IF StripStr(GetField(text)) = PyStr("") THEN VideoAnswer(400, FALSE, None)
    ELSE CHOOSE a \in {VideoResultAnswer(v, veo = "ok") :
                          v \in {GenerateVideoWithVeo3(25, duration, veo, sdk, sdk2)}} : TRUE

\* A scene whose visual prompt is a number.
NumberedPromptScene == Obj(<< Member("narration", <<"a">>), Member("visual_prompt", <<"1">>) >>)

VideoRouteTexts ==
    { <<Prose>>, <<"{">>, <<"{", "}">>,
      Obj(<< Member("scenes", Arr(<<SceneDoc>>)) >>),
      Obj(<< Member("scenes", Arr(<<NumberedPromptScene>>)) >>),
      Obj(<< Member("scenes", <<"1">>) >>) }

GenerateQuiz ==
    /\ Idle
    /\ \E kind \in BodyKinds, topic \in FieldValues, difficulty \in FieldValues \cup Difficulties,
          n \in {Absent, None, PyStr("x"), PyInt(4), PyInt(5), PyInt(21)},
          sdk \in PromptSdk :
           /\ kind # "object" => topic = Absent /\ difficulty = Absent /\ n = Absent
           /\ ~GenerateQuizRoute(kind, topic, difficulty, n, sdk).ai => sdk = SdkNoModel
           /\ call' = [op |-> "POST /api/quizzes/generate", kind |-> kind, topic |-> topic,
                       difficulty |-> difficulty, n |-> n, sdk |-> sdk]
           /\ ret' = GenerateQuizRoute(kind, topic, difficulty, n, sdk)
           /\ UNCHANGED stores

AnalyzeResumeRequest ==
    /\ Idle
    /\ \E kind \in BodyKinds, job_description \in FieldValues, resume_text \in FieldValues,
          public_id \in {Absent, PyStr("p")}, fetched \in {"ok", "unsupported", "error"},
          sdk \in PromptSdk :
           /\ kind # "object" =>
                  job_description = Absent /\ resume_text = Absent /\ public_id = Absent
           /\ public_id = Absent => fetched = "ok"
           /\ ~ResumeAnalyzeRequest(kind, job_description, resume_text, public_id,
                                    fetched, sdk).ai => sdk = SdkNoModel
           /\ call' = [op |-> "POST /api/resume/analyze", kind |-> kind,
                       job_description |-> job_description, resume_text |-> resume_text,
                       public_id |-> public_id, fetched |-> fetched, sdk |-> sdk]
           /\ ret' = ResumeAnalyzeRequest(kind, job_description, resume_text, public_id,
                                          fetched, sdk)
           /\ UNCHANGED stores

TextToVideo ==
    /\ Idle
    /\ \E kind \in BodyKinds, text \in FieldValues, veo \in {"ok", "none", "no_model"},
          sdk \in SdkOutcomes(VideoRouteTexts), sdk2 \in ScriptOutcomes \cup {SdkNoModel} :
           /\ kind # "object" => text = Absent
           /\ (kind # "object" \/ text # PyStr("x")) => veo = "none"
           /\ veo # "ok" => sdk = SdkNoModel /\ sdk2 = SdkNoModel
           /\ veo = "ok" => sdk2 # SdkNoModel
           /\ call' = [op |-> "POST /api/visual/text-to-video", kind |-> kind, text |-> text,
                       veo |-> veo, sdk |-> sdk, sdk2 |-> sdk2]
           /\ ret' = TextToVideoRoute(kind, text, 30, veo, sdk, sdk2)
           /\ UNCHANGED stores

NextRequests ==
    \/ GenerateQuiz
    \/ AnalyzeResumeRequest
    \/ TextToVideo
    \/ GenerateRoadmap
    \/ Respond
SpecRequests == InitRoadmap /\ [][NextRequests]_vars

\* generate_roadmap_content on the model outputs the route is run on.
RoadmapContent ==
    /\ Idle
    /\ \E sdk \in SdkOutcomes(RoadmapTexts) :
           /\ call' = [op |-> "generate_roadmap_content", sdk |-> sdk, weeks |-> DefaultWeeks]
           /\ ret' = GenerateRoadmapContent("T", DefaultWeeks, sdk)
           /\ UNCHANGED stores

\* Roadmap generation: the adapter and the route.
NextRoadmapGeneration == RoadmapContent \/ GenerateRoadmap \/ Respond
SpecRoadmapGeneration == InitRoadmap /\ [][NextRoadmapGeneration]_vars

\* ---- utils/cloudinary_utils.py: fetch_file_from_cloudinary ----

MaxPid == 3
FileFormat == "pdf"
\* A public_id is a sequence of path pieces: names, dots and slashes.
PidPieces == {"f", ".", "/", "pdf", "PDF"}
PublicIds == SeqsUpTo(PidPieces, MaxPid)
HttpStatuses == {200, 404, 500}

\* str.lower() on one piece.
LowerPiece(x) == IF x = "PDF" THEN "pdf" ELSE x

\* pid.lower().endswith(f".{file_format.lower()}")
EndsWithFormat(pid) ==
    /\ Len(pid) >= 2
    /\ pid[Len(pid) - 1] = "."
    /\ LowerPiece(pid[Len(pid)]) = FileFormat

\* os.path.basename(pid): what follows the last slash.
Basename(pid) ==
    LET slashes == {i \in DOMAIN pid : pid[i] = "/"}
    IN  IF slashes = {} THEN pid ELSE SubSeq(pid, SetMax(slashes) + 1, Len(pid))

\* "." in base
HasDot(base) == \E i \in DOMAIN base : base[i] = "."

\* f"{pid}.{file_format}"
WithFormat(pid) == pid \o <<".", FileFormat>>

\* pid.rsplit(".", 1)[0]
BeforeLastDot(pid) ==
    LET dots == {i \in DOMAIN pid : pid[i] = "."}
    IN  IF dots = {} THEN pid ELSE SubSeq(pid, 1, SetMax(dots) - 1)

\* The path requested first.
PrimaryPath(pid) ==
    IF EndsWithFormat(pid) THEN pid
    ELSE IF HasDot(Basename(pid)) THEN pid
    ELSE WithFormat(pid)

\* The path requested after a 404.
AltPath(pid) ==
    IF HasDot(Basename(pid)) THEN BeforeLastDot(pid) ELSE WithFormat(pid)

\* do_get(p) against a server answering status: FileNotFoundError on 404,
\* raise_for_status() on the other error statuses, else the content.
DoGet(p, status) ==
    [path |-> p, status |-> status,
     raised |-> IF status = 404 THEN "FileNotFoundError"
                ELSE IF status >= 400 THEN "HTTPError" ELSE "no"]

\* fetch_file_from_cloudinary(public_id); first, second: what the server
\* answers to the first and to the second request. requests: the calls of
\* requests.get made, in order.
FetchFileFromCloudinary(pid, first, second) ==
    LET one == DoGet(PrimaryPath(pid), first)
        two == DoGet(AltPath(pid), second)
    IN  IF one.raised = "FileNotFoundError"
        THEN [requests |-> <<one, two>>, raised |-> two.raised # "no"]
        ELSE [requests |-> <<one>>, raised |-> one.raised # "no"]

FetchFile ==
    /\ Idle
    /\ \E pid \in PublicIds, first \in HttpStatuses, second \in HttpStatuses :
           /\ first # 404 => second = 200
           /\ call' = [op |-> "fetch_file_from_cloudinary", public_id |-> pid,
                       first |-> first, second |-> second]
           /\ ret' = FetchFileFromCloudinary(pid, first, second)
           /\ UNCHANGED stores

NextFetch == FetchFile \/ Respond
SpecFetch == Init /\ [][NextFetch]_vars



\* ---- utils/ai_utils.py, routes/tutor.py: the tutor chat history ----

MaxStored == 4
DefaultLimit == 50
HistorySessionIds == {"s1", "s2"}
NoSession == ""
Contents == {"m1", "m2"}
Limits == {0, 1, 2, DefaultLimit}
Offsets == 0..2

\* str(ObjectId()): an id no stored message carries.
FreshObjectId(coll) ==
    SetMin({k \in 1..(Len(coll) + 1) : \A i \in DOMAIN coll : coll[i].session_id # <<"oid", k>>})

\* save_chat_message with a collection: the user message, then the AI message.
SaveChatMessage(coll, user, message, response, session_id) ==
    coll \o <<[user_email |-> user, content |-> message, is_ai |-> FALSE, session_id |-> session_id],
              [user_email |-> user, content |-> response, is_ai |-> TRUE, session_id |-> session_id]>>

\* query_filter of get_chat_history and clear_chat_history: the user, and the
\* session when a session_id is given.
MatchesFilter(doc, user, session_id) ==
    /\ doc.user_email = user
    /\ session_id # <<"sid", NoSession>> => doc.session_id = session_id

Matching(coll, user, session_id) ==
    {i \in DOMAIN coll : MatchesFilter(coll[i], user, session_id)}

\* The documents at the positions in keep, in their stored order.
RECURSIVE Pick(_, _)
Pick(coll, keep) ==
    IF coll = <<>> THEN <<>>
    ELSE Pick(SubSeq(coll, 1, Len(coll) - 1), keep)
             \o (IF Len(coll) \in keep THEN <<coll[Len(coll)]>> ELSE <<>>)

\* cursor.limit(n): the first n documents; limit(0) sets no limit.
CursorLimit(docs, n) == IF n = 0 \/ n >= Len(docs) THEN docs ELSE SubSeq(docs, 1, n)

\* The message as get_chat_history hands it to the client.
ClientMessage(doc) == [content |-> doc.content, is_ai |-> doc.is_ai, session_id |-> doc.session_id]

\* get_chat_history(user_email, limit, session_id), with a collection:
\* find(filter).sort('created_at', 1).limit(limit).
GetChatHistory(coll, user, limit, session_id) ==
    LET docs == CursorLimit(Pick(coll, Matching(coll, user, session_id)), limit)
    IN  [i \in DOMAIN docs |-> ClientMessage(docs[i])]

\* messages[offset:offset + limit]
Slice(messages, offset, limit) ==
    SubSeq(messages, offset + 1, Min(offset + limit, Len(messages)))

\* save_chat_message(user_email, message, response, conversation_id)
CallSaveChatMessage ==
    /\ Idle
    /\ Len(chatHistory) + 2 <= MaxStored
    /\ \E user \in Users, message \in Contents,
          conversation_id \in {<<"sid", x>> : x \in HistorySessionIds \cup {NoSession}},
          db \in BOOLEAN :
           LET session_id == IF conversation_id = <<"sid", NoSession>>
                             THEN <<"oid", FreshObjectId(chatHistory)>>
                             ELSE conversation_id
           IN  /\ call' = [op |-> "save_chat_message", user |-> user, message |-> message,
                           conversation_id |-> conversation_id, db |-> db]
               /\ ret' = [raised |-> FALSE, saved |-> db]
               /\ chatHistory' = IF db THEN SaveChatMessage(chatHistory, user, message, "r", session_id)
                                 ELSE chatHistory
               /\ UNCHANGED <<quizStore, chatDbUp, chats, activeSessions, roadmapStore>>

\* GET /api/tutor/chat/history?userEmail=&limit=&offset=&sessionId=
GetChatHistoryEndpoint ==
    /\ Idle
    /\ \E user \in Users \cup {""}, limit \in Limits, offset \in Offsets,
          session_id \in {<<"sid", x>> : x \in HistorySessionIds \cup {NoSession}}
                             \cup {<<"oid", 1>>},
          db \in BOOLEAN :
           LET messages == IF db THEN GetChatHistory(chatHistory, user, limit + offset, session_id)
                           ELSE <<>>
               total_messages == Len(messages)
               page == IF offset < total_messages THEN Slice(messages, offset, limit) ELSE <<>>
           IN  /\ user = "" => db /\ limit = DefaultLimit /\ offset = 0
                                  /\ session_id = <<"sid", NoSession>>
               /\ call' = [op |-> "GET /api/tutor/chat/history", user |-> user, limit |-> limit,
                           offset |-> offset, session_id |-> session_id, db |-> db]
               /\ ret' = IF user = "" THEN HttpError(400)
                         ELSE [status |-> 200, messages |-> page, count |-> Len(page),
                               total |-> total_messages]
               /\ UNCHANGED stores

\* data.get('confirm', False) as the request may carry it.
Confirms == {Absent, None, PyBool(FALSE), PyBool(TRUE), PyStr("false")}
\* not confirm
NotConfirmed(confirm) ==
    GetFieldOr(confirm, PyBool(FALSE)) \in {None, PyBool(FALSE), PyStr(""), PyInt(0)}

\* POST /api/tutor/chat/clear
ClearChatHistoryEndpoint ==
    /\ Idle
    /\ \E body \in BOOLEAN, user \in Users \cup {""}, confirm \in Confirms,
          session_id \in {<<"sid", x>> : x \in HistorySessionIds \cup {NoSession}}
                             \cup {<<"oid", 1>>},
          db \in BOOLEAN :
           LET deleted == Matching(chatHistory, user, session_id) IN
           /\ ~body => user = "" /\ confirm = Absent /\ session_id = <<"sid", NoSession>>
           /\ (user = "" \/ NotConfirmed(confirm)) => db
           /\ call' = [op |-> "POST /api/tutor/chat/clear", body |-> body, user |-> user,
                       confirm |-> confirm, session_id |-> session_id, db |-> db]
           /\ IF ~body \/ user = "" \/ NotConfirmed(confirm)
              THEN ret' = HttpError(400) /\ UNCHANGED stores
              ELSE IF ~db
              THEN ret' = HttpError(500) /\ UNCHANGED stores
              ELSE /\ ret' = HttpError(IF deleted # {} THEN 200 ELSE 404)
                   /\ chatHistory' = Pick(chatHistory, DOMAIN chatHistory \ deleted)
                   /\ UNCHANGED <<quizStore, chatDbUp, chats, activeSessions, roadmapStore>>

NextHistory ==
    \/ CallSaveChatMessage
    \/ GetChatHistoryEndpoint
    \/ ClearChatHistoryEndpoint
    \/ Respond
SpecHistory == Init /\ [][NextHistory]_vars





\* ================================================================ properties

\* The SDK answered with finish reason STOP and the text t.
Answered(sdk, t) ==
    sdk.kind = "response" /\ sdk.finish = FinishStop /\ sdk.textOk /\ sdk.text = t

ObjectAdapters == {"analyze_resume", "generate_roadmap_content", "generate_video_with_veo3"}
FallbackAdapters ==
    {"generate_quiz_content", "generate_roadmap_content", "analyze_resume",
     "generate_visual_script", "generate_video_with_veo3"}

\* C1: for a model output that is one well-formed JSON object, bare or inside
\* a code fence, the normalizer of the resume, roadmap and video adapters and
\* _safe_extract_json return the object that parsing the bare text gives.
C1_FencedObjectIsParsed ==
    /\ call.op \in ObjectAdapters =>
           \A d \in ObjectDocs :
               (\E t \in Fenced(d) : Answered(call.sdk, t)) =>
                   /\ ~ret.raised
                   /\ ret.parsed.ok
                   /\ ret.parsed.val = JsonLoads(d).val
    /\ call.op = "_safe_extract_json" =>
           \A d \in ObjectDocs :
               call.text \in Fenced(d) => ret.ok /\ ret.val = JsonLoads(d).val

\* What the adapter of the call gives when the model answers t instead.
SameCallAnswering(t) ==
    LET sdk == SdkResponse(FinishStop, TRUE, t) IN
    CASE call.op = "analyze_resume" -> AnalyzeResume(sdk)
      [] call.op = "generate_roadmap_content" -> GenerateRoadmapContent("T", call.weeks, sdk)
      [] call.op = "generate_quiz_content" -> GenerateQuizContent(sdk)
      [] call.op = "generate_video_with_veo3" ->
            GenerateVideoWithVeo3(call.words, call.duration, call.veo, sdk, call.sdk2)

\* C2: for a model output that is well-formed JSON but for one trailing comma
\* before a closing brace or bracket, the quiz, roadmap, resume and video
\* adapters recover the value they parse from the comma-free output.
C2_TrailingCommaIsRecovered ==
    call.op \in {"generate_quiz_content", "generate_roadmap_content", "analyze_resume",
                 "generate_video_with_veo3"} =>
        \A d \in Docs : \A c \in TrailingCommas(d) :
            (Answered(call.sdk, c) /\ SameCallAnswering(d).path = "parsed") =>
                /\ ret.raised = SameCallAnswering(d).raised
                /\ ret.parsed = SameCallAnswering(d).parsed
                /\ ret.value = SameCallAnswering(d).value

\* C3: the adapters that declare a fallback return a value, and do not raise,
\* for every malformed, empty, truncated or blocked model output.
C3_FallbackAdaptersNeverRaise ==
    (/\ call.op \in FallbackAdapters
     /\ call.sdk.kind = "response"
     /\ call.sdk.finish \in {FinishStop, FinishMaxTokens, FinishSafety, FinishRecitation})
        => ~ret.raised

\* The model output is blocked, empty, or text that is no JSON object.
NoJsonObject(sdk) ==
    /\ sdk.kind = "response"
    /\ \/ sdk.finish \in {FinishSafety, FinishRecitation}
       \/ ~sdk.textOk
       \/ Strip(sdk.text) = <<>>
       \/ ~JsonLoads(CleanObject(sdk.text)).ok
       \/ ~IsDict(JsonLoads(CleanObject(sdk.text)).val)

IsScore(v) == Tag(v) = "int" /\ Val(v) \in 0..100

\* C4: for every malformed or empty model output analyze_resume returns
\* success with an analysis of exactly the four canonical keys whose
\* match_score lies in 0..100.
C4_ResumeFallbackShape ==
    (call.op = "analyze_resume" /\ NoJsonObject(call.sdk)) =>
        /\ ~ret.raised
        /\ ret.success
        /\ IsDict(ret.value)
        /\ DOMAIN Val(ret.value) = CanonicalKeys
        /\ IsScore(Val(ret.value)["match_score"])

\* Every question is answered, and every answer is the correctAnswer of the
\* question it names.
CompleteAndCorrect(questions, answers) ==
    /\ \A i \in DOMAIN questions : \E j \in DOMAIN answers : answers[j].id = questions[i].id
    /\ \A j \in DOMAIN answers : \E i \in DOMAIN questions :
           /\ questions[i].id = answers[j].id
           /\ questions[i].correctAnswer = answers[j].answer

\* C5: submit_quiz on a stored quiz of N questions reports score = total = N
\* and percentage = 100 for a complete, fully correct answer set, and score 0
\* for an empty answer set.
C5_SubmitQuizScores ==
    (/\ call.op = "POST /api/quizzes/submit"
     /\ call.body
     /\ quizDbUp
     /\ call.quiz_id \in DOMAIN quizzes) =>
        LET questions == quizzes[call.quiz_id].questions IN
        /\ CompleteAndCorrect(questions, call.answers) =>
               /\ ret.status = 200
               /\ ret.score = Len(questions)
               /\ ret.total = Len(questions)
               /\ ret.percentage = 100
        /\ call.answers = <<>> => ret.status = 200 /\ ret.score = 0

\* A question with exactly four options, one of them its correctAnswer.
WellFormedQuestion(q) ==
    /\ IsDict(q)
    /\ {"options", "correctAnswer"} \subseteq DOMAIN Val(q)
    /\ IsList(Val(q)["options"])
    /\ Len(Val(Val(q)["options"])) = 4
    /\ \E i \in 1..4 : Val(Val(q)["options"])[i] = Val(q)["correctAnswer"]

\* C6: for every AI outcome create_quiz(topic, difficulty, n) returns the
\* topic and difficulty it was given and exactly n questions, each with four
\* options and a correctAnswer among them.
C6_CreateQuizShape ==
    call.op = "create_quiz" =>
        /\ ~ret.raised
        /\ IsDict(ret.value)
        /\ {"topic", "difficulty", "questions"} \subseteq DOMAIN Val(ret.value)
        /\ Val(ret.value)["topic"] = PyStr(call.topic)
        /\ Val(ret.value)["difficulty"] = PyStr(call.difficulty)
        /\ IsList(Val(ret.value)["questions"])
        /\ Len(Val(Val(ret.value)["questions"])) = call.n
        /\ \A i \in 1..call.n : WellFormedQuestion(Val(Val(ret.value)["questions"])[i])

IsStrList(v) == IsList(v) /\ \A i \in DOMAIN Val(v) : Tag(Val(v)[i]) = "str"

\* The ResumeAnalysis schema.
IsResumeAnalysis(a) ==
    /\ IsDict(a)
    /\ CanonicalKeys \subseteq DOMAIN Val(a)
    /\ IsStrList(Val(a)["strengths"])
    /\ IsStrList(Val(a)["improvements"])
    /\ Tag(Val(a)["summary"]) = "str"
    /\ IsScore(Val(a)["match_score"])

\* C7: every analysis POST /api/resume/analyze answers with is normalized:
\* lists of strings, a summary string and an integer match_score in 0..100.
C7_RouteAnalysisIsNormalized ==
    (/\ call.op = "POST /api/resume/analyze"
     /\ ret.status = 200
     /\ \E d \in ObjectDocs : \E t \in Fenced(d) : Answered(call.sdk, t)) =>
        IsResumeAnalysis(ret.analysis)

Clamped(n) == IF n < 0 THEN 0 ELSE IF n > 100 THEN 100 ELSE n

\* A string of digits, with or without a closing per cent sign.
Numeral(cs) ==
    IF cs # <<>> /\ cs[Len(cs)] = "%" THEN SubSeq(cs, 1, Len(cs) - 1) ELSE cs
IsNumeral(cs) == Numeral(cs) # <<>> /\ AllDigits(Numeral(cs))

\* C8: to_score takes an int, a float or a string with a closing per cent
\* sign to the nearest integer clamped into 0..100, and everything it cannot
\* read to 0; the string 150% gives 100 and the int -5 gives 0.
C8_ToScoreClamps ==
    call.op = "to_score" =>
        LET v == call.val IN
        /\ ret \in 0..100
        /\ Tag(v) = "int" => ret = Clamped(Val(v))
        /\ Tag(v) = "float" =>
               LET n == Val(v)[1]
                   d == Val(v)[2]
               IN  IF n <= 0 THEN ret = 0
                   ELSE IF n >= 100 * d THEN ret = 100
                   ELSE 2 * (ret * d - n) <= d /\ 2 * (n - ret * d) <= d
        /\ (Tag(v) = "chars" /\ IsNumeral(Val(v))) => ret = Clamped(DigitsVal(Numeral(Val(v))))
        /\ (Tag(v) = "chars" /\ \A i \in DOMAIN Val(v) : Val(v)[i] \notin Digits) => ret = 0
        /\ Tag(v) \in {"none", "list", "dict", "nan", "inf"} => ret = 0
        /\ v \in {PyChars(<<"1", "5", "0", "%">>), PyStr("150%")} => ret = 100
        /\ v = PyInt(0 - 5) => ret = 0

\* C8: to_score was given the string 150% and returned 100.
C8_Witness ==
    call.op = "to_score" /\ call.val = PyChars(<<"1", "5", "0", "%">>) /\ ret = 100

\* C9: when the finish reason is a safety block, max tokens or a recitation
\* block, generate_ai_response gives no text and an error kind (or raises);
\* it does not hand the partial or blocked text back as a success.
C9_BlockedFinishIsNoSuccess ==
    (/\ call.op = "generate_ai_response"
     /\ call.sdk.kind = "response"
     /\ call.sdk.finish \in {FinishSafety, FinishMaxTokens, FinishRecitation}) =>
        \/ ret.raised
        \/ ~ret.success /\ ret.response = <<>> /\ ret.error # "None"

FailureReturned == call.op = "generate_ai_response" /\ ~ret.raised /\ ~ret.success

HasWord(content) == \E i \in 1..Len(Words), j \in DOMAIN content : content[j] = Words[i]
WordAt(h, content) ==
    IF HasWord(content)
    THEN CHOOSE i \in 1..Len(Words) : \E j \in DOMAIN content : content[j] = Words[i]
    ELSE CHOOSE p \in DOMAIN h : h[p].content = content

PromptOps == {"get_tutor_response", "get_ai_response"}

IsPrefix(a, b) == Len(a) <= Len(b) /\ SubSeq(b, 1, Len(a)) = a

\* C12: a chat session's stored message sequence is append-only: across any
\* request, a session that exists before and after keeps its earlier
\* sequence as a prefix of the new one.
C12_MessagesAppendOnly ==
    [][\A id \in DOMAIN chats \cap DOMAIN chats' :
           IsPrefix(chats[id].messages, chats'[id].messages)]_vars

EndOps == {"POST /api/tutor/session/end", "end_active_session"}
SessionOps == EndOps \cup {"POST /api/tutor/session/start", "save_active_session"}

OnePerUser == \A u \in Users : Cardinality(SessionsOf(activeSessions, u)) <= 1

\* The operation just run ended the session of u and reported success.
EndedFor(u) ==
    /\ call.op \in EndOps
    /\ call.user = u
    /\ IF call.op = "end_active_session" THEN ~ret.raised ELSE ret.success

\* C13 as stated: at most one active-session record per user, and none for
\* a user whose last operation was end_session, whatever its outcome.
C13_OnePerUserNoneAfterEnd ==
    /\ OnePerUser
    /\ \A u \in Users :
           (call.op \in EndOps /\ call.user = u) => SessionsOf(activeSessions, u) = {}

\* C13: after any sequence of start_session, end_session,
\* save_active_session and end_active_session operations the store holds at
\* most one active-session record per user; an end operation that reports
\* success leaves none for its user; and an operation of one user leaves the
\* records of every other user as they were.
C13_OnePerUserNoneAfterSuccessfulEnd ==
    [][/\ OnePerUser'
       /\ \A u \in Users :
              /\ EndedFor(u)' => SessionsOf(activeSessions', u) = {}
              /\ (call'.op \notin SessionOps \/ call'.user # u)
                     => Keep(activeSessions', SessionsOf(activeSessions', u))
                            = Keep(activeSessions, SessionsOf(activeSessions, u))]_vars

\* An end_session succeeded for one user while another user's record stays.
C13_Witness ==
    /\ call.op = "POST /api/tutor/session/end"
    /\ ret.success
    /\ Len(activeSessions) = 1
    /\ activeSessions[1].user_email # call.user

\* C20 as stated: whenever producing the AI answer fails, tutor_ask answers
\* HTTP 200 with success false, the error text and a fallback response
\* message; it never answers with a 5xx.
C20_TutorAskNever5xx ==
    (call.op = "POST /api/tutor/ask" /\ call.body /\ Strip(call.prompt) # <<>>
     /\ call.user # "")
        => /\ ret.status < 500
           /\ GetTutorResponse(<<>>, call.sdk).result.raised
                  => ret.status = 200 /\ ~ret.success /\ ret.response # <<>>

\* The AI call of the request just answered gave no usable answer.
AiFailed ==
    \/ /\ call.op = "POST /api/chat/message"
       /\ call.body /\ Strip(call.input) # <<>> /\ call.user # ""
       /\ GetAiResponse(call.history, call.sdk).answer = None
    \/ /\ call.op = "POST /api/tutor/ask"
       /\ call.body /\ Strip(call.prompt) # <<>> /\ call.user # ""
       /\ LET r == GetTutorResponse(<<>>, call.sdk).result IN r.raised \/ ~r.success

\* C19 as stated: at the chat-style call sites a failed, blocked, empty or
\* malformed AI response is surfaced as an error, never replaced by a
\* substitute answer delivered as a normal successful reply.
C19_AiFailureIsSurfaced ==
    AiFailed => ~(ret.status = 200 /\ ret.success)

\* The quizzes stored before and after a step are the same where both exist.
KeptQuizzesEqual ==
    \A q \in DOMAIN quizzes \cap DOMAIN quizzes' :
        /\ quizzes'[q].topic = quizzes[q].topic
        /\ quizzes'[q].difficulty = quizzes[q].difficulty
        /\ quizzes'[q].questions = quizzes[q].questions

\* A save stores the topic and the questions of its body under a new id.
SavedAsSent ==
    \A q \in DOMAIN quizzes' \ DOMAIN quizzes :
        /\ call'.op = "POST /api/tools/quizzes"
        /\ quizzes'[q].topic = (IF call'.topic = None THEN PyStr("Untitled Quiz") ELSE call'.topic)
        /\ quizzes'[q].questions = call'.questions

ReadOnlyQuizOps == {"POST /api/quizzes/submit", "GET /api/tools/quizzes"}

\* A deletion removes the quiz of the given id and no other; where no quiz
\* has the id nothing changes.
DeleteRemovesOnlyGiven ==
    call'.op = "DELETE /api/tools/quizzes" =>
        /\ DOMAIN quizzes' = DOMAIN quizzes \ {call'.quiz_id}
        /\ call'.quiz_id \notin DOMAIN quizzes => quizzes' = quizzes

RoadmapByIdOps == {"/api/roadmap/<roadmap_id>", "GET /api/roadmap/download"}

\* user is the owner of the stored roadmap roadmap_id.
Owns(user, roadmap_id) ==
    \/ roadmap_id \in DOMAIN roadmapsDb /\ roadmapsDb[roadmap_id].user_email = user
    \/ roadmap_id \in DOMAIN roadmapsMem /\ roadmapsMem[roadmap_id].user_email = user

\* The step is a request by id whose user_email is not the roadmap's owner.
ByOtherThanOwner ==
    call'.op \in RoadmapByIdOps /\ ~Owns(call'.user_email, call'.roadmap_id)

\* The list of a user holds roadmaps of that user only.
ListIsOwn ==
    (call'.op = "GET /api/roadmap/user" /\ ret'.status = 200) =>
        \A r \in ret'.roadmaps : r.user_email = call'.user_email

\* C15, as the specification words it: GET, DELETE and download of a roadmap
\* whose owner is not the request's user_email answer 404 and leave the
\* collection and the in-memory store unchanged, and GET /api/roadmap/user
\* returns roadmaps of the requesting user only.
C15_OnlyOwnerElse404 ==
    [][/\ ByOtherThanOwner =>
              /\ ret'.status = 404
              /\ roadmapsDb' = roadmapsDb /\ roadmapsMem' = roadmapsMem
       /\ ListIsOwn]_vars

\* C15: such a request never acts: it leaves both stores unchanged and is
\* answered 400 without a user_email, 500 where the database operation
\* fails, and 404 otherwise; the list of a user holds that user's roadmaps only.
C15_OnlyOwnerActs ==
    [][/\ ByOtherThanOwner =>
              /\ ret'.status = (IF call'.user_email = "" THEN 400
                                ELSE IF call'.db_fails THEN 500 ELSE 404)
              /\ roadmapsDb' = roadmapsDb /\ roadmapsMem' = roadmapsMem
       /\ ListIsOwn]_vars

\* C15: a DELETE of a stored roadmap by a user who is not its owner was
\* answered 404 and the roadmap is still stored.
C15_Witness ==
    /\ call.op = "/api/roadmap/<roadmap_id>"
    /\ call.method = "DELETE"
    /\ call.user_email # ""
    /\ ret.status = 404
    /\ \/ call.roadmap_id \in DOMAIN roadmapsDb /\ roadmapDb
       \/ call.roadmap_id \in DOMAIN roadmapsMem /\ ~roadmapDb
    /\ ~Owns(call.user_email, call.roadmap_id)

ValidatingOps ==
    {"POST /api/quizzes/generate", "POST /api/roadmap/generate",
     "POST /api/resume/analyze", "POST /api/visual/text-to-video"}

\* v is a string that is not blank.
Filled(v) == Tag(v) = "str" /\ Val(v) \notin {"", " "}

\* The required fields of the request c are there and well formed.
WellFormed(c) ==
    /\ c.kind = "object"
    /\ c.op = "POST /api/quizzes/generate" =>
           /\ Filled(c.topic)
           /\ c.difficulty \in Difficulties \cup {Absent}
           /\ c.n = Absent \/ (Tag(c.n) = "int" /\ Val(c.n) \in QuizMin..QuizMax)
    /\ c.op = "POST /api/roadmap/generate" => c.valid
    /\ c.op = "POST /api/resume/analyze" =>
           /\ Filled(c.job_description)
           /\ Filled(c.resume_text)
              \/ (c.resume_text \in {Absent, None, PyStr(""), PyStr(" ")}
                  /\ Filled(c.public_id))
    /\ c.op = "POST /api/visual/text-to-video" => Filled(c.text)

\* C16: a request to quiz generate, roadmap generate, resume analyze or
\* text-to-video whose body or required fields are missing or malformed is
\* answered with a 4xx status, without a call of the generative model and
\* without a change of the stored data.
C16_BadRequestsGet4xx ==
    [][(call'.op \in ValidatingOps /\ ~WellFormed(call')) =>
           /\ ret'.status \in 400..499
           /\ ~ret'.ai
           /\ <<quizzes, chats, activeSessions, roadmapsDb, roadmapsMem>>'
                  = <<quizzes, chats, activeSessions, roadmapsDb, roadmapsMem>>]_vars

\* The model answered with a text that neither cleanup turns into JSON.
Unrecoverable(sdk) ==
    /\ sdk.kind = "response"
    /\ sdk.finish = FinishStop
    /\ sdk.textOk
    /\ Strip(sdk.text) # <<>>
    /\ ~JsonLoads(CleanObject(sdk.text)).ok
    /\ ~JsonLoads(RemoveFences(sdk.text)).ok

\* v is a roadmap whose every edge runs between ids of its nodes.
EdgesReferToNodes(v) ==
    /\ IsDict(v)
    /\ {"nodes", "edges"} \subseteq DOMAIN Val(v)
    /\ LET nodes == Val(Val(v)["nodes"])
           edges == Val(Val(v)["edges"])
           ids == {Val(nodes[i])["id"] : i \in DOMAIN nodes}
       IN  \A e \in DOMAIN edges :
               Val(edges[e])["from"] \in ids /\ Val(edges[e])["to"] \in ids

\* C17: when the roadmap text of the model cannot be recovered as JSON, both
\* generate_roadmap_content and POST /api/roadmap/generate return the
\* hand-authored placeholder roadmap, every edge of which joins existing
\* nodes, and no error.
C17_UnrecoverableRoadmapGetsPlaceholder ==
    /\ (call.op = "generate_roadmap_content" /\ Unrecoverable(call.sdk)) =>
           /\ ~ret.raised
           /\ ret.path = "fallback"
           /\ EdgesReferToNodes(ret.value)
    /\ (call.op = "POST /api/roadmap/generate" /\ call.valid /\ Unrecoverable(call.sdk)) =>
           /\ ret.status = 200
           /\ ret.how = "fallback"
           /\ EdgesReferToNodes(ret.roadmap)

\* C18: POST /api/visual/text-to-video with a text that is not blank answers
\* 200 with a list of scenes, whatever the model calls gave.
C18_TextToVideoAlways200 ==
    (call.op = "POST /api/visual/text-to-video" /\ call.kind = "object" /\ Filled(call.text)) =>
        /\ ret.status = 200
        /\ IsList(ret.scenes)

\* ---- routes/tutor.py: start_session ----

StartOp == "POST /api/tutor/session/start"

\* C21: any two sessions created by start_session calls that did not resume
\* a session have different session_id values. Under SpecSessions every
\* stored record is such a session.
C21_CreatedSessionIdsDiffer ==
    \A i, j \in DOMAIN activeSessions :
        i # j => activeSessions[i].session_id # activeSessions[j].session_id

\* The request of a start_session call is complete: a body, a userEmail and a
\* subject that is not blank.
StartRequestValid(c) == c.body /\ c.user # "" /\ Strip(c.subject) # <<>>

\* The answer ret resumes the stored record doc, and the store is untouched.
Resumes(doc) ==
    /\ ret'.status = 200
    /\ ret'.is_resumed
    /\ ret'.session_id = doc.session_id
    /\ ret'.mode = doc.mode
    /\ ret'.subject = doc.subject
    /\ activeSessions' = activeSessions

\* C22 as stated: start_session for a user who has an active session answers
\* with the stored session and is_resumed, and leaves the record unchanged,
\* whatever the request carries.
C22_StartResumesActive ==
    [][(call'.op = StartOp /\ SessionsOf(activeSessions, call'.user) # {})
          => Resumes(activeSessions[SetMin(SessionsOf(activeSessions, call'.user))])]_vars

\* C22, for a complete request while the database can be read: the stored
\* session is resumed whatever mode and subject the request carries.
C22_ValidStartResumesActive ==
    [][(/\ call'.op = StartOp
        /\ SessionsOf(activeSessions, call'.user) # {}
        /\ StartRequestValid(call')
        /\ call'.dbGet)
          => Resumes(activeSessions[SetMin(SessionsOf(activeSessions, call'.user))])]_vars

\* A session was resumed by a request carrying another mode and subject.
C22_Witness ==
    /\ call.op = StartOp
    /\ ret.status = 200
    /\ ret.is_resumed
    /\ ret.mode # call.mode
    /\ ret.subject # call.subject
    /\ \E i \in DOMAIN activeSessions :
           /\ activeSessions[i].user_email = call.user
           /\ activeSessions[i].session_id = ret.session_id

\* ---- utils/cloudinary_utils.py: fetch_file_from_cloudinary ----

\* The path carries an extension: its last component has a dot.
HasExtension(p) == HasDot(Basename(p))

\* C26: the primary path is requested first; only when that answers 404 is
\* there a second request, exactly one, whose path has the extension exactly
\* when the primary path lacked it; a non-404 error is raised with no retry.
C26_RetryTogglesExtensionOnce ==
    call.op = "fetch_file_from_cloudinary" =>
        /\ Len(ret.requests) \in {1, 2}
        /\ ret.requests[1].path = PrimaryPath(call.public_id)
        /\ Len(ret.requests) = 2 <=> call.first = 404
        /\ Len(ret.requests) = 2 =>
               (HasExtension(ret.requests[2].path) <=> ~HasExtension(ret.requests[1].path))
        /\ (call.first # 404 /\ call.first >= 400) => ret.raised

\* ---- routes/roadmap.py: a generated roadmap stays readable ----

\* The roadmaps POST /api/roadmap/generate answered 200 for and whose owner
\* has not deleted them: a document enters a store only with that answer and
\* leaves it only by the owner's DELETE.
GeneratedIds == DOMAIN roadmapsDb \cup DOMAIN roadmapsMem
GeneratedDoc(id) == IF id \in DOMAIN roadmapsDb THEN roadmapsDb[id] ELSE roadmapsMem[id]

\* C23: every such roadmap is returned to its owner by GET /api/roadmap/user
\* and by GET /api/roadmap/<id>, wherever it was stored and whatever the
\* database availability is at the later request. Stated for the requests
\* whose database operation does not raise.
C23_GeneratedRoadmapStaysReadable ==
    [][/\ (call'.op = "GET /api/roadmap/user" /\ ret'.status = 200) =>
              \A id \in GeneratedIds :
                  GeneratedDoc(id).user_email = call'.user_email
                      => GeneratedDoc(id) \in ret'.roadmaps
       /\ (/\ call'.op = "/api/roadmap/<roadmap_id>"
           /\ call'.method = "GET"
           /\ ~call'.db_fails
           /\ call'.roadmap_id \in GeneratedIds) =>
              (GeneratedDoc(call'.roadmap_id).user_email = call'.user_email
                  => ret'.status = 200 /\ ret'.roadmap = GeneratedDoc(call'.roadmap_id))]_vars

\* ---- routes/tutor.py: the chat history endpoints ----

\* The stored messages of the request's user (and session), oldest first.
StoredFor(c) == Pick(chatHistory, Matching(chatHistory, c.user, c.session_id))

\* C24: get_chat_history_endpoint returns the messages at positions
\* offset .. offset+limit-1 in ascending creation order, count is the number
\* returned (at most limit), and total is the number of messages stored for
\* that user/session.
C24_PageCountAndTotal ==
    (call.op = "GET /api/tutor/chat/history" /\ ret.status = 200 /\ call.db) =>
        /\ ret.messages = [i \in 1..Len(ret.messages) |->
                              ClientMessage(StoredFor(call)[call.offset + i])]
        /\ Len(ret.messages) = Max(0, Min(call.limit, Len(StoredFor(call)) - call.offset))
        /\ ret.count = Len(ret.messages)
        /\ ret.count <= call.limit
        /\ ret.total = Len(StoredFor(call))

ClearOp == "POST /api/tutor/chat/clear"

\* The stored messages that do not belong to user, oldest first.
OthersMessages(coll, user) == Pick(coll, {i \in DOMAIN coll : coll[i].user_email # user})

\* The clear request deleted all and only the messages its filter names.
DeletesExactlyMatching ==
    chatHistory' = Pick(chatHistory,
                        DOMAIN chatHistory \ Matching(chatHistory, call'.user, call'.session_id))

\* C25: clear_chat_history_endpoint deletes nothing unless confirm is true
\* (400, store unchanged); with confirm it deletes all and only the user's
\* messages (of the session, when a sessionId is given); other users'
\* messages are never removed; 404 is answered when nothing was deleted.
C25_ClearNeedsConfirmAndDeletesOwn ==
    [][call'.op = ClearOp =>
          /\ call'.confirm # PyBool(TRUE) => chatHistory' = chatHistory
          /\ NotConfirmed(call'.confirm) => ret'.status = 400
          /\ OthersMessages(chatHistory', call'.user) = OthersMessages(chatHistory, call'.user)
          /\ ret'.status = 200 => DeletesExactlyMatching /\ chatHistory' # chatHistory
          /\ (call'.confirm = PyBool(TRUE) /\ call'.user # "" /\ call'.db
                 /\ chatHistory' = chatHistory) => ret'.status = 404]_vars

\* ---- routes/chatbot.py: save_chat_sessions ----

\* The stored sessions of a user: id -> document.
SessionsOwnedBy(store, user) == [i \in ChatsOf(store, user) |-> store[i]]

\* C27: if PUT /api/chat/saveChat answers with an error, the user's stored
\* chat sessions are as they were before the request.
C27_FailedSaveKeepsSessions ==
    [][(call'.op = "PUT /api/chat/saveChat" /\ ret'.status >= 400)
          => SessionsOwnedBy(chats', call'.user) = SessionsOwnedBy(chats, call'.user)]_vars

\* The requests of routes/chatbot.py that write on behalf of one user.
ChatWriteOps == {"PUT /api/chat/saveChat", "PUT /api/chat/updateMessages",
                 "DELETE /api/chat/deleteChat", "POST /api/chat/message"}

\* C28: saveChat, updateMessages, deleteChat and send_message issued for one
\* user never create, overwrite or delete a session of a different user,
\* whatever session ids the request carries.
C28_OtherUsersSessionsUntouched ==
    [][call'.op \in ChatWriteOps =>
          \A other \in Users \ {call'.user} :
              SessionsOwnedBy(chats', other) = SessionsOwnedBy(chats, other)]_vars

====
